---- MODULE Spec2Model ----
(***************************************************************************)
(* Verification model of async-ior.                                        *)
(*                                                                         *)
(*  Spec      the async pipeline of ior-bench (write_or_read_async) driving *)
(*            the POSIX backend's worker pool (ThreadPool).                 *)
(*  PoolSpec  the worker pool under an arbitrary client that submits,      *)
(*            polls, cancels and finally drops the pool.                   *)
(*  MpiSpec   the ranks of one job running main / run_benchmark with their *)
(*            collective operations.                                       *)
(***************************************************************************)
EXTENDS Integers, Sequences, FiniteSets, TLC

(* ------------------------------ bounds -------------------------------- *)
\* largest queue_depth (= number of transfer buffers = pool size) explored
MaxQueueDepth == 2
\* largest total_xfers (segment_count * offsets_per_block) explored
MaxXfers == 3
\* number of min_time_duration restarts explored
MaxRestarts == 1
\* ranks of the MPI world
MaxRanks == 3
\* largest num_tasks of a run of the sync benchmark loop
MaxTasks == 2
\* largest segment_count of such a run
MaxSegments == 2
\* largest block_size / transfer_size of such a run
MaxOffsets == 2

(* ----------------------------- constants ------------------------------ *)
\* libc::ECANCELED, the error of a cancelled transfer
ECANCELED == 125
\* errno values a failing pread/pwrite may leave (EIO, ENOSPC)
Errnos == {5, 28}

VARIABLES
    params,          \* IorParam: queue_depth, total_xfers, transfer_size,
                     \*   deadline_for_stonewalling, min_time_duration
    faults,          \* environment: what pread/pwrite may do besides succeeding
    stonewall_due,   \* now() - start > deadline_for_stonewalling at the last reading
    min_time_due,    \* now() - start >= min_time_duration at the last reading
    pc,              \* position of the main thread
    submitted,       \* write_or_read_async: local counters
    completed,
    in_flight,
    buf_idx,
    state,           \* AsyncState: completed_count, total_bytes, error
    result,          \* what write_or_read_async returned
    restarts,        \* history: number of "Reset for another pass"
    first_error,     \* history: error of the first erroring completion dispatched
    next_token,      \* NEXT_TOKEN
    pool_pending,    \* PoolShared.pending.queue
    shutdown,        \* PoolShared.pending.shutdown
    pool_completed,  \* PoolShared.completed
    workers,         \* ThreadPool.workers: each worker's position and its op
    joined,          \* Drop for ThreadPool: number of workers joined so far
    cb_log,          \* history: the results handed to the pool client's callback
    last_call,       \* history: the pool client's last call and what it returned
    mpi_params,      \* the job: world size, num_tasks and the phase flags
    rank_pc,         \* per rank: position in main / run_benchmark
    rank_st,         \* per rank: running, inside a collective, failed, finished
    entered,         \* per rank: collectives of the test communicator entered
    failed_at,       \* history: source line of the backend call that failed, per rank
    io_pc,           \* execute_posix_io: idle, in its loop, or returned
    io_len,          \* execute_posix_io: len
    io_remaining,    \* execute_posix_io: remaining
    io_retries,      \* execute_posix_io: retries
    io_ret,          \* what execute_posix_io returned
    io_calls,        \* history: number of pread/pwrite calls made
    io_sum,          \* history: sum of the bytes the calls moved
    io_zero,         \* history: a call returned 0
    sparams,         \* IorParam of a run of the sync benchmark loop
    tasks,           \* per rank of test_comm: the locals of run_benchmark and
                     \*   write_or_read, and the history of what the rank did
    bflags,          \* the stonewall flags rank 0 has broadcast in this phase
    files,           \* the backend's files: what is stored at each offset
    call             \* one call of a function: its arguments, and what it returned

pipe_vars == <<params, faults, stonewall_due, min_time_due, pc, submitted, completed,
               in_flight, buf_idx, state, result, restarts, first_error>>
pool_vars == <<next_token, pool_pending, shutdown, pool_completed, workers>>
client_vars == <<joined, cb_log, last_call>>
mpi_vars == <<mpi_params, rank_pc, rank_st, entered, failed_at>>
io_vars == <<io_pc, io_len, io_remaining, io_retries, io_ret, io_calls, io_sum, io_zero>>
sync_vars == <<sparams, tasks, bflags, files>>
rest_vars == <<io_vars, sync_vars, call>>
vars == <<pipe_vars, pool_vars, client_vars, mpi_vars, rest_vars>>

Min(a, b) == IF a < b THEN a ELSE b

NoOp == [token |-> 0, buf |-> 0, xfer |-> 0]
NoResult == [kind |-> "none", val |-> 0]
NoCall == [op |-> "none", arg |-> 0, count |-> 0, found |-> FALSE]

Workers == DOMAIN workers

next_xfer_token_stuck(t) == t

\* next_xfer_token: the token issued is the counter's value, the counter moves on
next_xfer_token(t) == t + 1

(* --------------------------- worker pool ------------------------------ *)

\* ThreadPool::new: every worker starts at the top of worker_loop
NewWorkers(num_threads) == [w \in 1..num_threads |-> [st |-> "lock", op |-> NoOp]]

Waiting == {w \in Workers : workers[w].st = "wait"}

NotifyOneLost(ws) == {ws}

\* Condvar::notify_one: wakes one of the waiting workers, if there is one
NotifyOne(ws) ==
    IF \E w \in DOMAIN ws : ws[w].st = "wait"
    THEN {[ws EXCEPT ![w].st = "lock"] : w \in {v \in DOMAIN ws : ws[v].st = "wait"}}
    ELSE {ws}

NotifyAllLost(ws) == ws

\* Condvar::notify_all: wakes every waiting worker
NotifyAll(ws) ==
    [w \in DOMAIN ws |-> IF ws[w].st = "wait" THEN [ws[w] EXCEPT !.st = "lock"] ELSE ws[w]]

\* worker_loop, the critical section on the pending lock: return on shutdown,
\* else take the front op, else wait on the condvar (which releases the lock)
WorkerNext(w) ==
    /\ workers[w].st = "lock"
    /\ IF shutdown
       THEN /\ workers' = [workers EXCEPT ![w].st = "exited"]
            /\ UNCHANGED pool_pending
       ELSE IF pool_pending # <<>>
       THEN /\ workers' = [workers EXCEPT ![w] = [st |-> "exec", op |-> Head(pool_pending)]]
            /\ pool_pending' = Tail(pool_pending)
       ELSE /\ workers' = [workers EXCEPT ![w].st = "wait"]
            /\ UNCHANGED pool_pending
    /\ UNCHANGED <<next_token, shutdown, pool_completed, pipe_vars, client_vars, mpi_vars, rest_vars>>

\* Condvar::wait may return without a notification
SpuriousWake(w) ==
    /\ workers[w].st = "wait"
    /\ workers' = [workers EXCEPT ![w].st = "lock"]
    /\ UNCHANGED <<next_token, pool_pending, shutdown, pool_completed, pipe_vars, client_vars, mpi_vars, rest_vars>>

\* what execute_posix_io can return for a transfer of len bytes:
\* Ok(len), Ok(short) at EOF, or Err with errno set
IoOutcomes(len) ==
    {[bytes |-> len, error |-> 0]}
    \cup (IF faults = "short" THEN {[bytes |-> b, error |-> 0] : b \in 0..(len - 1)} ELSE {})
    \cup (IF faults = "error" THEN {[bytes |-> -1, error |-> e] : e \in Errnos} ELSE {})

\* the CompletedOp a worker builds from the outcome of its op
CompletedOp(op, out) ==
    [token |-> op.token, bytes_transferred |-> out.bytes, error |-> out.error]

\* worker_loop: execute the op, push its CompletedOp, go back for the lock
WorkerExecute(w) ==
    /\ workers[w].st = "exec"
    /\ \E out \in IoOutcomes(params.transfer_size) :
          pool_completed' = Append(pool_completed, CompletedOp(workers[w].op, out))
    /\ workers' = [workers EXCEPT ![w] = [st |-> "lock", op |-> NoOp]]
    /\ UNCHANGED <<next_token, pool_pending, shutdown, pipe_vars, client_vars, mpi_vars, rest_vars>>

PollCountAll(max_completions) == Len(pool_completed)

\* ThreadPool::poll: the number of completions one call dispatches
PollCount(max_completions) == Min(Len(pool_completed), max_completions)

(* -------------------------- async pipeline ---------------------------- *)

\* async_completion_callback
async_completion_callback(st, res) ==
    [completed_count |-> st.completed_count + 1,
     total_bytes |-> IF res.error = 0 THEN st.total_bytes + res.bytes_transferred
                     ELSE st.total_bytes,
     error |-> IF res.error = 0 THEN st.error ELSE res.error]

\* the callbacks of one poll, applied in the order the results are popped
RECURSIVE Dispatch(_, _)
Dispatch(st, popped) ==
    IF popped = <<>> THEN st
    ELSE Dispatch(async_completion_callback(st, Head(popped)), Tail(popped))

\* history: the first nonzero error among the completions dispatched so far
RECURSIVE FirstError(_, _)
FirstError(fe, popped) ==
    IF fe # 0 \/ popped = <<>> THEN fe
    ELSE FirstError(Head(popped).error, Tail(popped))

\* a reading of now(): a comparison of the elapsed time with a configured
\* duration that was seen to hold holds at every later reading
Later(due) == {b \in BOOLEAN : due => b}

FillCondOffByOne == in_flight <= params.queue_depth /\ submitted < params.total_xfers

\* while in_flight < queue_depth && submitted < total_xfers
FillCond == in_flight < params.queue_depth /\ submitted < params.total_xfers

\* the stonewall check at the head of the fill loop body reads the clock
ReadStonewall ==
    stonewall_due' \in IF FillCond /\ params.deadline_for_stonewalling > 0
                       THEN Later(stonewall_due) ELSE {stonewall_due}

\* the fill loop goes on: its condition holds and the stonewall check does not break
FillGoes == FillCond /\ ~(params.deadline_for_stonewalling > 0 /\ stonewall_due')

\* the buffer index after a submit
NextBufIdx(i) == (i + 1) % params.queue_depth

\* the op that xfer_submit queues for transfer number `submitted`
NewOp == [token |-> next_token, buf |-> buf_idx, xfer |-> submitted]

\* fill loop body, first half: xfer_submit pushes the op onto the pending queue
Submit ==
    /\ pc = "loop"
    /\ ReadStonewall
    /\ FillGoes
    /\ pool_pending' = Append(pool_pending, NewOp)
    /\ next_token' = next_xfer_token(next_token)
    /\ pc' = "notify"
    /\ UNCHANGED <<params, faults, min_time_due, submitted, completed, in_flight,
                   buf_idx, state, result, restarts, first_error,
                   shutdown, pool_completed, workers, client_vars, mpi_vars, rest_vars>>

\* fill loop body, second half: notify_one, then the counters
SubmitNotify ==
    /\ pc = "notify"
    /\ workers' \in NotifyOne(workers)
    /\ submitted' = submitted + 1
    /\ in_flight' = in_flight + 1
    /\ buf_idx' = NextBufIdx(buf_idx)
    /\ pc' = "loop"
    /\ UNCHANGED <<params, faults, stonewall_due, min_time_due, completed, state,
                   result, restarts, first_error, next_token, pool_pending, shutdown,
                   pool_completed, client_vars, mpi_vars, rest_vars>>

\* "No more work and nothing in flight": break and return Ok(total_bytes)
ReturnIdle ==
    /\ pc = "loop"
    /\ ReadStonewall
    /\ ~FillGoes
    /\ in_flight = 0
    /\ result' = [kind |-> "Ok", val |-> state.total_bytes]
    /\ pc' = "done"
    /\ UNCHANGED <<params, faults, min_time_due, submitted, completed, in_flight,
                   buf_idx, state, restarts, first_error, pool_vars, client_vars,
                   mpi_vars, rest_vars>>

PassStartKept == submitted

\* "Reset for another pass": submitted = 0
PassStart == 0

\* in_flight -= delta
InFlightAfter(delta) == in_flight - delta

\* poll(queue_depth) and what follows it in the loop body
Poll ==
    /\ pc = "loop"
    /\ ReadStonewall
    /\ ~FillGoes
    /\ in_flight > 0
    /\ LET count == PollCount(params.queue_depth)
           popped == SubSeq(pool_completed, 1, count)
           st == Dispatch(state, popped)
           delta == st.completed_count - completed
           left == InFlightAfter(delta)
           drained == st.error = 0 /\ submitted >= params.total_xfers /\ left = 0
       IN /\ pool_completed' = SubSeq(pool_completed, count + 1, Len(pool_completed))
          /\ state' = st
          /\ first_error' = FirstError(first_error, popped)
          /\ completed' = st.completed_count
          /\ in_flight' = left
          /\ min_time_due' \in IF drained /\ params.min_time_duration > 0
                               THEN Later(min_time_due) ELSE {min_time_due}
          /\ IF st.error # 0
             THEN /\ result' = [kind |-> "Err", val |-> st.error]
                  /\ pc' = "done"
                  /\ UNCHANGED <<submitted, restarts>>
             ELSE IF drained
             THEN IF params.min_time_duration > 0 /\ ~min_time_due'
                  THEN /\ restarts < MaxRestarts
                       /\ submitted' = PassStart
                       /\ restarts' = restarts + 1
                       /\ UNCHANGED <<pc, result>>
                  ELSE /\ result' = [kind |-> "Ok", val |-> st.total_bytes]
                       /\ pc' = "done"
                       /\ UNCHANGED <<submitted, restarts>>
             ELSE UNCHANGED <<pc, result, submitted, restarts>>
    /\ UNCHANGED <<params, faults, buf_idx, next_token, pool_pending, shutdown, workers,
                   client_vars, mpi_vars, rest_vars>>

ParamSpace ==
    [queue_depth : 2..MaxQueueDepth,
     total_xfers : 0..MaxXfers,
     transfer_size : {2},
     deadline_for_stonewalling : {0, 1},
     min_time_duration : {0, 1}]

\* the locals of write_or_read_async before its loop (lines 851-876)
PipeStart ==
    /\ stonewall_due = FALSE
    /\ min_time_due = (params.min_time_duration = 0)
    /\ pc = "loop"
    /\ submitted = 0 /\ completed = 0 /\ in_flight = 0 /\ buf_idx = 0
    /\ state = [completed_count |-> 0, total_bytes |-> 0, error |-> 0]
    /\ result = NoResult
    /\ restarts = 0
    /\ first_error = 0

\* PosixBackend::with_pool(direct_io, num_threads), no transfer submitted yet
PoolStart(num_threads) ==
    /\ next_token = 1
    /\ pool_pending = <<>>
    /\ shutdown = FALSE
    /\ pool_completed = <<>>
    /\ workers = NewWorkers(num_threads)

\* the parts of the state a specification does not use keep these values
ClientUnused == joined = 0 /\ cb_log = <<>> /\ last_call = NoCall
IoUnused ==
    /\ io_pc = "idle" /\ io_len = 0 /\ io_remaining = 0 /\ io_retries = 0
    /\ io_ret = NoResult /\ io_calls = 0 /\ io_sum = 0 /\ io_zero = FALSE
SyncUnused == sparams = <<>> /\ tasks = <<>> /\ bflags = <<>> /\ files = <<>>
\* no function is being called
NoFn == [pc |-> "none"]
CallUnused == call = NoFn
RestUnused == IoUnused /\ SyncUnused /\ CallUnused
MpiUnused ==
    /\ mpi_params = <<>> /\ rank_pc = <<>> /\ rank_st = <<>>
    /\ entered = <<>> /\ failed_at = <<>>

Init ==
    /\ params \in ParamSpace
    /\ faults \in {"none", "short", "error"}
    /\ PipeStart
    /\ PoolStart(params.queue_depth)
    /\ ClientUnused
    /\ MpiUnused
    /\ RestUnused

Next ==
    \/ Submit
    \/ SubmitNotify
    \/ ReturnIdle
    \/ Poll
    \/ \E w \in Workers : WorkerNext(w)
    \/ \E w \in Workers : WorkerExecute(w)
    \/ \E w \in Workers : SpuriousWake(w)

Spec == Init /\ [][Next]_vars

(* ---------------------- the pool and its client ------------------------ *)

\* ThreadPool::submit, first half: push_back under the pending lock
ClientSubmit ==
    /\ pc = "client"
    /\ next_token <= MaxXfers
    /\ pool_pending' = Append(pool_pending, [token |-> next_token, buf |-> 0, xfer |-> 0])
    /\ next_token' = next_xfer_token(next_token)
    /\ last_call' = [op |-> "submit", arg |-> next_token, count |-> 0, found |-> FALSE]
    /\ pc' = "submit_notify"
    /\ UNCHANGED <<params, faults, stonewall_due, min_time_due, submitted, completed,
                   in_flight, buf_idx, state, result, restarts, first_error,
                   shutdown, pool_completed, workers, joined, cb_log, mpi_vars, rest_vars>>

\* ThreadPool::submit, second half: notify_one
ClientNotify ==
    /\ pc = "submit_notify"
    /\ workers' \in NotifyOne(workers)
    /\ pc' = "client"
    /\ UNCHANGED <<params, faults, stonewall_due, min_time_due, submitted, completed,
                   in_flight, buf_idx, state, result, restarts, first_error,
                   next_token, pool_pending, shutdown, pool_completed,
                   client_vars, mpi_vars, rest_vars>>

PopFrontsKept(q, count) == q

\* ThreadPool::poll: count times completed.pop_front()
PopFronts(q, count) == SubSeq(q, count + 1, Len(q))

\* ThreadPool::poll: pop up to max_completions results and hand each to its callback
ClientPoll(max_completions) ==
    /\ pc = "client"
    /\ LET count == PollCount(max_completions)
       IN /\ cb_log' = cb_log \o SubSeq(pool_completed, 1, count)
          /\ pool_completed' = PopFronts(pool_completed, count)
          /\ last_call' = [op |-> "poll", arg |-> max_completions, count |-> count,
                           found |-> FALSE]
    /\ UNCHANGED <<pipe_vars, next_token, pool_pending, shutdown, workers, joined,
                   mpi_vars, rest_vars>>

RemoveAtKeep(q, pos) == q

\* VecDeque::remove(pos)
RemoveAt(q, pos) == SubSeq(q, 1, pos - 1) \o SubSeq(q, pos + 1, Len(q))

\* queue.iter().position(|op| op.token == token): 0 stands for None
Position(q, token) ==
    IF \E i \in 1..Len(q) : q[i].token = token
    THEN CHOOSE i \in 1..Len(q) :
            q[i].token = token /\ \A j \in 1..(i - 1) : q[j].token # token
    ELSE 0

\* ThreadPool::cancel: if the token is queued, remove it and call its callback
\* with ECANCELED
ClientCancel(token) ==
    /\ pc = "client"
    /\ LET pos == Position(pool_pending, token)
       IN IF pos # 0
          THEN /\ pool_pending' = RemoveAt(pool_pending, pos)
               /\ cb_log' = Append(cb_log, [token |-> pool_pending[pos].token,
                                            bytes_transferred |-> 0,
                                            error |-> ECANCELED])
               /\ last_call' = [op |-> "cancel", arg |-> token, count |-> 0,
                                found |-> TRUE]
          ELSE /\ UNCHANGED <<pool_pending, cb_log>>
               /\ last_call' = [op |-> "cancel", arg |-> token, count |-> 0,
                                found |-> FALSE]
    /\ UNCHANGED <<pipe_vars, next_token, shutdown, pool_completed, workers, joined,
                   mpi_vars, rest_vars>>

\* Drop for ThreadPool: shutdown = true under the pending lock
DropShutdown ==
    /\ pc = "client"
    /\ shutdown' = TRUE
    /\ pc' = "drop_notify"
    /\ last_call' = [op |-> "drop", arg |-> 0, count |-> 0, found |-> FALSE]
    /\ UNCHANGED <<params, faults, stonewall_due, min_time_due, submitted, completed,
                   in_flight, buf_idx, state, result, restarts, first_error,
                   next_token, pool_pending, pool_completed, workers, joined, cb_log,
                   mpi_vars, rest_vars>>

\* Drop for ThreadPool: notify_all
DropNotifyAll ==
    /\ pc = "drop_notify"
    /\ workers' = NotifyAll(workers)
    /\ pc' = "drop_join"
    /\ UNCHANGED <<params, faults, stonewall_due, min_time_due, submitted, completed,
                   in_flight, buf_idx, state, result, restarts, first_error,
                   next_token, pool_pending, shutdown, pool_completed,
                   client_vars, mpi_vars, rest_vars>>

\* Drop for ThreadPool: join the next worker, which returns once it has exited
DropJoin ==
    /\ pc = "drop_join"
    /\ joined < Cardinality(Workers)
    /\ workers[joined + 1].st = "exited"
    /\ joined' = joined + 1
    /\ pc' = IF joined + 1 = Cardinality(Workers) THEN "dropped" ELSE "drop_join"
    /\ UNCHANGED <<params, faults, stonewall_due, min_time_due, submitted, completed,
                   in_flight, buf_idx, state, result, restarts, first_error,
                   pool_vars, cb_log, last_call, mpi_vars, rest_vars>>

\* a pool of 1..MaxQueueDepth workers and a caller of submit, poll, cancel and
\* drop; the transfers succeed: a worker pushes the CompletedOp whatever the
\* outcome, so the outcome plays no part in the queues
PoolInit ==
    /\ params \in [queue_depth : 1..MaxQueueDepth, total_xfers : {MaxXfers},
                   transfer_size : {2}, deadline_for_stonewalling : {0},
                   min_time_duration : {0}]
    /\ faults = "none"
    /\ stonewall_due = FALSE /\ min_time_due = TRUE
    /\ pc = "client"
    /\ submitted = 0 /\ completed = 0 /\ in_flight = 0 /\ buf_idx = 0
    /\ state = [completed_count |-> 0, total_bytes |-> 0, error |-> 0]
    /\ result = NoResult
    /\ restarts = 0
    /\ first_error = 0
    /\ PoolStart(params.queue_depth)
    /\ ClientUnused
    /\ MpiUnused
    /\ RestUnused

PoolNext ==
    \/ ClientSubmit
    \/ ClientNotify
    \/ \E max_completions \in 0..MaxQueueDepth : ClientPoll(max_completions)
    \/ \E token \in 0..MaxXfers : ClientCancel(token)
    \/ DropShutdown
    \/ DropNotifyAll
    \/ DropJoin
    \/ \E w \in Workers : WorkerNext(w)
    \/ \E w \in Workers : WorkerExecute(w)
    \/ \E w \in Workers : SpuriousWake(w)

PoolSpec == PoolInit /\ [][PoolNext]_vars

\* the worker threads keep running, every pread/pwrite returns, and a drop that
\* has begun goes on; the client is free to stop calling
PoolFairness ==
    /\ WF_vars(DropNotifyAll) /\ WF_vars(DropJoin)
    /\ \A w \in 1..MaxQueueDepth : WF_vars(w \in Workers /\ WorkerNext(w))
    /\ \A w \in 1..MaxQueueDepth : WF_vars(w \in Workers /\ WorkerExecute(w))

FairPoolSpec == PoolInit /\ [][PoolNext]_vars /\ PoolFairness

(* ------------------------ execute_posix_io -------------------------------- *)

\* MAX_RETRY
MAX_RETRY == 10000

\* the transfer lengths explored: none, a few bytes, and lengths around MAX_RETRY
IoLens == {0, 1, 2, 3, MAX_RETRY, MAX_RETRY + 1}

\* what one pread/pwrite of `remaining` bytes may return: -1, 0 (EOF), a single
\* byte (the slowest progress) or all that remains
Rcs(remaining) == {-1, 0, 1, remaining}

RetriesNeverExhausted(retries) == FALSE

\* if retries >= MAX_RETRY { break }
RetriesExhausted(retries) == retries >= MAX_RETRY

\* one round of the while loop: the call and what follows it
IoXfer ==
    /\ io_pc = "loop"
    /\ io_remaining > 0
    /\ \E rc \in Rcs(io_remaining) :
          /\ io_calls' = io_calls + 1
          /\ io_zero' = (rc = 0)
          /\ io_sum' = IF rc > 0 THEN io_sum + rc ELSE io_sum
          /\ IF rc < 0
             THEN /\ \E e \in Errnos : io_ret' = [kind |-> "Err", val |-> e]
                  /\ io_pc' = "done"
                  /\ UNCHANGED <<io_remaining, io_retries>>
             ELSE IF rc = 0
             THEN /\ io_ret' = [kind |-> "Ok", val |-> io_len - io_remaining]
                  /\ io_pc' = "done"
                  /\ UNCHANGED <<io_remaining, io_retries>>
             ELSE /\ io_remaining' = io_remaining - rc
                  /\ io_retries' = IF io_remaining' > 0 THEN io_retries + 1 ELSE io_retries
                  /\ IF io_remaining' > 0 /\ RetriesExhausted(io_retries')
                     THEN /\ io_ret' = [kind |-> "Ok", val |-> io_len - io_remaining']
                          /\ io_pc' = "done"
                     ELSE UNCHANGED <<io_ret, io_pc>>
    /\ UNCHANGED <<io_len, pipe_vars, pool_vars, client_vars, mpi_vars, sync_vars, call>>

\* while remaining > 0 is false: Ok(len - remaining)
IoReturn ==
    /\ io_pc = "loop"
    /\ io_remaining = 0
    /\ io_ret' = [kind |-> "Ok", val |-> io_len - io_remaining]
    /\ io_pc' = "done"
    /\ UNCHANGED <<io_len, io_remaining, io_retries, io_calls, io_sum, io_zero,
                   pipe_vars, pool_vars, client_vars, mpi_vars, sync_vars, call>>

IoInit ==
    /\ io_len \in IoLens
    /\ io_remaining = io_len
    /\ io_retries = 0
    /\ io_pc = "loop"
    /\ io_ret = NoResult
    /\ io_calls = 0 /\ io_sum = 0 /\ io_zero = FALSE
    /\ params = [queue_depth |-> 1, total_xfers |-> 0, transfer_size |-> 2,
                 deadline_for_stonewalling |-> 0, min_time_duration |-> 0]
    /\ faults = "none"
    /\ stonewall_due = FALSE /\ min_time_due = TRUE
    /\ pc = "io"
    /\ submitted = 0 /\ completed = 0 /\ in_flight = 0 /\ buf_idx = 0
    /\ state = [completed_count |-> 0, total_bytes |-> 0, error |-> 0]
    /\ result = NoResult
    /\ restarts = 0
    /\ first_error = 0
    /\ next_token = 1 /\ pool_pending = <<>> /\ shutdown = FALSE
    /\ pool_completed = <<>> /\ workers = <<>>
    /\ ClientUnused
    /\ MpiUnused
    /\ SyncUnused
    /\ CallUnused

IoNext == IoXfer \/ IoReturn

IoSpec == IoInit /\ [][IoNext]_vars

(* --------------------- pseudo-random numbers ------------------------------ *)

\* a u64 is held as its eight bytes, least significant first
Bytes == 0..7

\* a small non-negative number as a u64
U64(n) == [i \in Bytes |-> IF i < 3 THEN (n \div (256 ^ i)) % 256
                           ELSE IF i = 3 THEN n \div 16777216 ELSE 0]

\* an i32 or i64 cast with `as u64`: a negative number is sign-extended
AsU64(n) == IF n >= 0 THEN U64(n) ELSE [i \in Bytes |-> 255 - U64(-(n + 1))[i]]

\* 6364136223846793005
LCG_MUL == [i \in Bytes |-> <<45, 127, 149, 76, 45, 244, 81, 88>>[i + 1]]

\* 1442695040888963407
LCG_INC == [i \in Bytes |-> <<79, 129, 103, 247, 126, 123, 5, 20>>[i + 1]]

\* the sum of a[i] * b[k - i] for i in 0..k
RECURSIVE Column(_, _, _, _)
Column(a, b, k, i) ==
    IF i > k THEN 0 ELSE a[i] * b[k - i] + Column(a, b, k, i + 1)

\* byte k of a * b + c, with the carry out of it, given the carry into it
RECURSIVE MulAddFrom(_, _, _, _, _)
MulAddFrom(a, b, c, k, carry) ==
    IF k > 7 THEN <<>>
    ELSE LET t == Column(a, b, k, 0) + c[k] + carry
         IN <<t % 256>> \o MulAddFrom(a, b, c, k + 1, t \div 256)

\* lcg_next: state.wrapping_mul(6364136223846793005).wrapping_add(1442695040888963407)
lcg_next(st) ==
    LET r == MulAddFrom(st, LCG_MUL, LCG_INC, 0, 0)
    IN [i \in Bytes |-> r[i + 1]]

\* byte k of a + b and the bytes above it, given the carry into it
RECURSIVE AddFrom(_, _, _, _)
AddFrom(a, b, k, carry) ==
    IF k > 7 THEN <<>>
    ELSE LET t == a[k] + b[k] + carry
         IN <<t % 256>> \o AddFrom(a, b, k + 1, t \div 256)

\* a.wrapping_add(b)
wrapping_add(a, b) ==
    LET r == AddFrom(a, b, 0, 0) IN [i \in Bytes |-> r[i + 1]]

\* a.wrapping_mul(b)
wrapping_mul(a, b) ==
    LET r == MulAddFrom(a, b, U64(0), 0, 0) IN [i \in Bytes |-> r[i + 1]]

\* state >> 33, a 31-bit number
Shr33(st) == (st[4] \div 2) + st[5] * 128 + st[6] * 32768 + st[7] * 8388608

(* ------------------ the ranks of one benchmark run ------------------------ *)

\* IOR_NB_TIMERS: the timers reduce_timers reduces, one rooted reduce each
IOR_NB_TIMERS == 6

Ranks == 0..(mpi_params.world_size - 1)

\* main: the ranks that get colour 0 and form test_comm
Participants == {r \in Ranks : r < mpi_params.num_tasks}

Instr(op, line) == <<[op |-> op, line |-> line]>>

If(cond, instrs) == IF cond THEN instrs ELSE <<>>

\* check_file_size: two allreduces for file-per-process, three for a shared file
check_file_size(p) ==
    IF p.file_per_proc
    THEN Instr("all_reduce", 465) \o Instr("all_reduce", 468)
    ELSE Instr("all_reduce", 480) \o Instr("all_reduce", 481) \o Instr("all_reduce", 491)

\* reduce_timers: IOR_NB_TIMERS reduces to rank 0 of test_comm
reduce_timers == [i \in 1..IOR_NB_TIMERS |-> [op |-> "reduce", line |-> 44]]

\* reduce_and_report: reduce_timers, reduce_data_moved, compute_metrics
reduce_and_report == reduce_timers \o Instr("all_reduce", 421) \o Instr("reduce", 424)

\* run_benchmark, one repetition: the collectives on test_comm and the backend
\* calls whose error is returned with `?`, in program order
Program(p) ==
    If(p.write_file,
         Instr("barrier", 57)
      \o Instr("call", 66)
      \o If(p.intra_test_barriers, Instr("barrier", 70))
      \o Instr("call", 75)
      \o If(p.intra_test_barriers, Instr("barrier", 79))
      \o If(p.fsync, Instr("call", 83))
      \o Instr("call", 87)
      \o Instr("barrier", 90)
      \o check_file_size(p)
      \o reduce_and_report
      \o If(p.check_write,
              Instr("barrier", 101) \o Instr("call", 102)
           \o Instr("all_reduce", 104) \o Instr("barrier", 110)))
    \o If(p.read_file,
         Instr("barrier", 131)
      \o Instr("call", 141)
      \o If(p.intra_test_barriers, Instr("barrier", 145))
      \o Instr("call", 150)
      \o If(p.intra_test_barriers, Instr("barrier", 154))
      \o Instr("call", 158)
      \o If(p.check_read, Instr("all_reduce", 164))
      \o reduce_and_report)
    \o If(~p.keep_file, Instr("barrier", 183) \o Instr("barrier", 185))

\* main: a rank outside test_comm runs nothing before the world barrier
ProgramOf(r) == IF r \in Participants THEN Program(mpi_params) ELSE <<>>

NoFailure == [rank |-> -1, line |-> 0]

AtInstr(r) == rank_st[r] = "run" /\ rank_pc[r] <= Len(ProgramOf(r))

\* a backend call that returns Ok: the rank goes on
RankCallOk(r) ==
    /\ AtInstr(r)
    /\ ProgramOf(r)[rank_pc[r]].op = "call"
    /\ rank_pc' = [rank_pc EXCEPT ![r] = @ + 1]
    /\ UNCHANGED <<mpi_params, rank_st, entered, failed_at>>
    /\ UNCHANGED <<pipe_vars, pool_vars, client_vars, rest_vars>>

\* a backend call that returns Err: `?` returns from run_benchmark, main prints
\* the error and enters world.barrier()
RankCallErr(r) ==
    /\ AtInstr(r)
    /\ ProgramOf(r)[rank_pc[r]].op = "call"
    /\ failed_at = NoFailure
    /\ failed_at' = [rank |-> r, line |-> ProgramOf(r)[rank_pc[r]].line]
    /\ rank_st' = [rank_st EXCEPT ![r] = "world"]
    /\ UNCHANGED <<mpi_params, rank_pc, entered>>
    /\ UNCHANGED <<pipe_vars, pool_vars, client_vars, rest_vars>>

\* the rank enters its next collective on test_comm
RankEnter(r) ==
    /\ AtInstr(r)
    /\ ProgramOf(r)[rank_pc[r]].op \in {"barrier", "all_reduce", "reduce"}
    /\ rank_st' = [rank_st EXCEPT ![r] = "coll"]
    /\ entered' = [entered EXCEPT ![r] = @ + 1]
    /\ UNCHANGED <<mpi_params, rank_pc, failed_at>>
    /\ UNCHANGED <<pipe_vars, pool_vars, client_vars, rest_vars>>

\* a barrier or an allreduce returns once every member of test_comm has entered
\* it; so does a reduce at its root, while the other ranks' reduce may return
\* as soon as their contribution is sent
CanLeave(r) ==
    \/ \A q \in Participants : entered[q] >= entered[r]
    \/ ProgramOf(r)[rank_pc[r]].op = "reduce" /\ r # 0

RankLeave(r) ==
    /\ rank_st[r] = "coll"
    /\ CanLeave(r)
    /\ rank_st' = [rank_st EXCEPT ![r] = "run"]
    /\ rank_pc' = [rank_pc EXCEPT ![r] = @ + 1]
    /\ UNCHANGED <<mpi_params, entered, failed_at>>
    /\ UNCHANGED <<pipe_vars, pool_vars, client_vars, rest_vars>>

\* main: run_benchmark returned Ok, or the rank takes no part; enter world.barrier()
RankEnterWorld(r) ==
    /\ rank_st[r] = "run"
    /\ rank_pc[r] > Len(ProgramOf(r))
    /\ rank_st' = [rank_st EXCEPT ![r] = "world"]
    /\ UNCHANGED <<mpi_params, rank_pc, entered, failed_at>>
    /\ UNCHANGED <<pipe_vars, pool_vars, client_vars, rest_vars>>

\* world.barrier() returns once every rank of the world has entered it
RankLeaveWorld(r) ==
    /\ rank_st[r] = "world"
    /\ \A q \in Ranks : rank_st[q] \in {"world", "done"}
    /\ rank_st' = [rank_st EXCEPT ![r] = "done"]
    /\ UNCHANGED <<mpi_params, rank_pc, entered, failed_at>>
    /\ UNCHANGED <<pipe_vars, pool_vars, client_vars, rest_vars>>

MpiParamSpace ==
    [world_size : 2..MaxRanks, num_tasks : 1..MaxRanks,
     write_file : BOOLEAN, read_file : BOOLEAN,
     check_write : BOOLEAN, check_read : BOOLEAN,
     intra_test_barriers : BOOLEAN, fsync : BOOLEAN,
     keep_file : BOOLEAN, file_per_proc : BOOLEAN]

\* the runs explored: every flag takes both values, the flags that only add
\* instructions of a kind already present move together
MpiRuns ==
    {p \in MpiParamSpace :
        /\ p.num_tasks <= p.world_size
        /\ p.check_read = p.check_write
        /\ p.fsync = p.intra_test_barriers
        /\ p.file_per_proc = p.keep_file}

MpiInit ==
    /\ mpi_params \in MpiRuns
    /\ rank_pc = [r \in Ranks |-> 1]
    /\ rank_st = [r \in Ranks |-> "run"]
    /\ entered = [r \in Ranks |-> 0]
    /\ failed_at = NoFailure
    /\ params = [queue_depth |-> 1, total_xfers |-> 0, transfer_size |-> 2,
                 deadline_for_stonewalling |-> 0, min_time_duration |-> 0]
    /\ faults = "none"
    /\ stonewall_due = FALSE /\ min_time_due = TRUE
    /\ pc = "mpi"
    /\ submitted = 0 /\ completed = 0 /\ in_flight = 0 /\ buf_idx = 0
    /\ state = [completed_count |-> 0, total_bytes |-> 0, error |-> 0]
    /\ result = NoResult
    /\ restarts = 0
    /\ first_error = 0
    /\ next_token = 1 /\ pool_pending = <<>> /\ shutdown = FALSE
    /\ pool_completed = <<>> /\ workers = <<>>
    /\ ClientUnused
    /\ RestUnused

MpiNext ==
    \/ \E r \in Ranks : RankCallOk(r)
    \/ \E r \in Ranks : RankCallErr(r)
    \/ \E r \in Ranks : RankEnter(r)
    \/ \E r \in Ranks : RankLeave(r)
    \/ \E r \in Ranks : RankEnterWorld(r)
    \/ \E r \in Ranks : RankLeaveWorld(r)

MpiSpec == MpiInit /\ [][MpiNext]_vars

\* every rank is a running process: a rank that can take its next step takes it
MpiFairness ==
    \A r \in 0..(MaxRanks - 1) :
        WF_vars(r \in Ranks /\ (RankCallOk(r) \/ RankCallErr(r) \/ RankEnter(r)
                                \/ RankLeave(r) \/ RankEnterWorld(r)
                                \/ RankLeaveWorld(r)))

FairMpiSpec == MpiInit /\ [][MpiNext]_vars /\ MpiFairness

(* ------------------------- transfer offsets ------------------------------- *)

\* offsets_per_block = block_size / transfer_size
offsets_per_block(p) == p.block_size \div p.transfer_size

\* pretend_rank = ((rank + rank_offset) % num_tasks + num_tasks) % num_tasks
pretend_rank(p, rank, rank_offset) ==
    (((rank + rank_offset) % p.num_tasks) + p.num_tasks) % p.num_tasks

\* the seed of get_offset_array_random: random_seed as u64, u64::MAX becoming 0
RandomSeed(p) == IF p.random_seed = -1 THEN 0 ELSE p.random_seed

SwapLost(arr, i, j) == [arr EXCEPT ![i + 1] = arr[j + 1]]

\* arr.swap(i, j), positions counted from 0
Swap(arr, i, j) ==
    [arr EXCEPT ![i + 1] = arr[j + 1], ![j + 1] = arr[i + 1]]

\* the loop of fisher_yates_shuffle, for i going down to 1
RECURSIVE ShuffleFrom(_, _, _)
ShuffleFrom(arr, st, i) ==
    IF i < 1 THEN arr
    ELSE LET nx == lcg_next(st)
         IN ShuffleFrom(Swap(arr, i, Shr33(nx) % (i + 1)), nx, i - 1)

\* fisher_yates_shuffle
fisher_yates_shuffle(arr, seed) ==
    IF Len(arr) <= 1 THEN arr ELSE ShuffleFrom(arr, U64(seed), Len(arr) - 1)

\* pass 2 of the shared-file branch: the offsets of the transfers that the LCG
\* assigns to pretend rank pr, from transfer xfer_idx on, st being the LCG state
RECURSIVE Assigned(_, _, _, _)
Assigned(p, pr, st, xfer_idx) ==
    IF xfer_idx >= offsets_per_block(p) * p.num_tasks THEN <<>>
    ELSE LET nx == lcg_next(st)
             j == xfer_idx % offsets_per_block(p)
             rank_of_xfer == xfer_idx \div offsets_per_block(p)
         IN (IF Shr33(nx) % p.num_tasks = pr
             THEN <<j * p.transfer_size + rank_of_xfer * p.block_size>>
             ELSE <<>>)
            \o Assigned(p, pr, nx, xfer_idx + 1)

\* get_offset_array_random
get_offset_array_random(p, pr) ==
    IF p.file_per_proc
    THEN fisher_yates_shuffle([i \in 1..offsets_per_block(p) |-> (i - 1) * p.transfer_size],
                              RandomSeed(p) + pr)
    ELSE fisher_yates_shuffle(Assigned(p, pr, U64(RandomSeed(p)), 0), RandomSeed(p) + pr)

\* write_or_read: random_offsets, <<>> standing for None when random_offset is off
RandomOffsets(p, pr) == IF p.random_offset THEN get_offset_array_random(p, pr) ELSE <<>>

\* write_or_read: num_offsets
NumOffsets(p, random_offsets) ==
    IF p.random_offset THEN Len(random_offsets) ELSE offsets_per_block(p)

XferOffsetNoRank(p, pr, random_offsets, seg, j) ==
    j * p.transfer_size + seg * p.num_tasks * p.block_size

\* write_or_read: OFFSET CALCULATION for transfer j of segment seg
XferOffset(p, pr, random_offsets, seg, j) ==
    IF p.random_offset
    THEN IF p.file_per_proc
         THEN random_offsets[j + 1] + seg * p.block_size
         ELSE random_offsets[j + 1] + seg * p.num_tasks * p.block_size
    ELSE IF p.file_per_proc
         THEN j * p.transfer_size + seg * p.block_size
         ELSE j * p.transfer_size + seg * p.num_tasks * p.block_size + pr * p.block_size

\* write_or_read_async: total_xfers
AsyncTotalXfers(p, random_offsets) ==
    IF p.random_offset THEN Len(random_offsets) * p.segment_count
    ELSE p.segment_count * offsets_per_block(p)

\* calc_offset that takes every transfer to be in the first segment
calc_offset_first_segment(p, pr, random_offsets, xfer_idx) ==
    XferOffset(p, pr, random_offsets, 0, xfer_idx % NumOffsets(p, random_offsets))

\* write_or_read_async: calc_offset
calc_offset(p, pr, random_offsets, xfer_idx) ==
    IF p.random_offset
    THEN LET num_per_seg == Len(random_offsets)
             seg == xfer_idx \div num_per_seg
             j == xfer_idx % num_per_seg
             base == random_offsets[j + 1]
         IN IF p.file_per_proc
            THEN base + seg * p.block_size
            ELSE base + seg * p.num_tasks * p.block_size
    ELSE LET seg == xfer_idx \div offsets_per_block(p)
             j == xfer_idx % offsets_per_block(p)
         IN IF p.file_per_proc
            THEN j * p.transfer_size + seg * p.block_size
            ELSE j * p.transfer_size + seg * p.num_tasks * p.block_size
                 + pr * p.block_size

(* --------------------------- data pattern --------------------------------- *)

\* words between two offset stamps
STAMP_STRIDE == 512

\* rank_hi | (lo & 0xFFFF_FFFF), as the eight bytes of to_ne_bytes, rank_hi
\* being (pretend_rank as u64) << 32 and lo a u64
Word8(pr, lo) ==
    LET rank_hi == AsU64(pr) IN [k \in Bytes |-> IF k < 4 THEN lo[k] ELSE rank_hi[k - 4]]

\* (seed as u64).wrapping_add(i as u64)
BaseWord(seed, i) == wrapping_add(AsU64(seed), U64(i))

\* (offset as u64).wrapping_mul(k.wrapping_add(1))
StampWord(offset, k) == wrapping_mul(AsU64(offset), U64(k + 1))

\* AlignedBuffer::new: len bytes of zero
ZeroBuffer(len) == [b \in 1..len |-> 0]

\* buf[i * 8..(i + 1) * 8], positions counted from 0
WordAt(buf, i) == [k \in Bytes |-> buf[8 * i + k + 1]]

\* val.to_ne_bytes(): the bytes of a word in the order of the buffer
to_ne_bytes(w) == <<w[0], w[1], w[2], w[3], w[4], w[5], w[6], w[7]>>

\* generate_memory_pattern: the bytes of the words from to below
RECURSIVE PatternWords(_, _, _, _)
PatternWords(from, below, seed, pr) ==
    IF from >= below THEN <<>>
    ELSE IF from + 1 = below THEN to_ne_bytes(Word8(pr, BaseWord(seed, from)))
    ELSE LET half == (from + below) \div 2
         IN PatternWords(from, half, seed, pr) \o PatternWords(half, below, seed, pr)

\* generate_memory_pattern on a fresh buffer of len bytes
generate_memory_pattern(len, seed, pr) ==
    PatternWords(0, len \div 8, seed, pr) \o ZeroBuffer(len % 8)

\* update_write_pattern: the bytes of the stamps from to below
RECURSIVE StampWords(_, _, _, _)
StampWords(from, below, offset, pr) ==
    IF from >= below THEN <<>>
    ELSE IF from + 1 = below THEN to_ne_bytes(Word8(pr, StampWord(offset, from)))
    ELSE LET half == (from + below) \div 2
         IN StampWords(from, half, offset, pr) \o StampWords(half, below, offset, pr)

update_write_pattern_noop(offset, buf, pr, data_type) == buf

\* update_write_pattern
update_write_pattern(offset, buf, pr, data_type) ==
    IF data_type # "Offset" THEN buf
    ELSE LET val == StampWords(0, (Len(buf) \div 8 - 1) \div STAMP_STRIDE + 1, offset, pr)
         IN [b \in 1..Len(buf) |->
               LET pos == (b - 1) \div 8
               IN IF pos < Len(buf) \div 8 /\ pos % STAMP_STRIDE = 0
                  THEN val[8 * (pos \div STAMP_STRIDE) + ((b - 1) % 8) + 1]
                  ELSE buf[b]]

\* verify_pattern: the number of words that differ from the expected ones
verify_pattern(offset, buf, seed, pr, data_type) ==
    Cardinality({i \in 0..(Len(buf) \div 8 - 1) :
        WordAt(buf, i) #
            (IF data_type = "Offset" /\ i % STAMP_STRIDE = 0
             THEN Word8(pr, StampWord(offset, i \div STAMP_STRIDE))
             ELSE Word8(pr, BaseWord(seed, i)))})

get_test_file_name_own(p, rank, rank_offset) == IF p.file_per_proc THEN rank ELSE -1

\* get_test_file_name: the file of the effective rank, or the one shared file
get_test_file_name(p, rank, rank_offset) ==
    IF p.file_per_proc THEN pretend_rank(p, rank, rank_offset) ELSE -1

\* the files of a run, empty
NoFiles(p) ==
    [f \in (IF p.file_per_proc THEN 0..(p.num_tasks - 1) ELSE {-1}) |-> <<>>]

\* xfer_sync, Write: pwrite of the buffer at the offset
WriteAt(file, offset, buf) == [o \in DOMAIN file \cup {offset} |->
                                 IF o = offset THEN buf ELSE file[o]]

\* xfer_sync, Read: pread at the offset into a zeroed buffer
ReadAt(file, offset, len) ==
    IF offset \in DOMAIN file THEN file[offset] ELSE ZeroBuffer(len)

\* random_rank_offset
random_rank_offset(rank, num_tasks, seed) ==
    Shr33(lcg_next(U64(rank + seed + 1))) % num_tasks

(* ---------------------- the sync benchmark loop --------------------------- *)

\* the ranks of test_comm
Tasks == DOMAIN tasks

\* run_benchmark: the phases of one repetition that move data
Phases(p) ==
    <<"write">> \o (IF p.check_write THEN <<"writecheck">> ELSE <<>>)
                \o (IF p.read_file THEN <<"read">> ELSE <<>>)

NoIssued == [write |-> <<>>, writecheck |-> <<>>, read |-> <<>>]

\* no error counted, no verify_pattern call made, no all_reduce done
NoCount == [write |-> 0, writecheck |-> 0, read |-> 0]

NoReport == [write |-> -1, writecheck |-> -1, read |-> -1]

\* run_benchmark: rank_offset is 0 until the read phase reorders the tasks
RankOffset(p, rank, phase) ==
    IF phase # "read" THEN 0
    ELSE IF p.reorder_tasks THEN p.task_per_node_offset % p.num_tasks
    ELSE IF p.reorder_tasks_random
         THEN random_rank_offset(rank, p.num_tasks, p.reorder_tasks_random_seed)
    ELSE 0

\* where a phase begins: write_or_read_verify, write_or_read_async when
\* queue_depth > 1, write_or_read otherwise
PhaseEntry(p, phase) ==
    IF phase = "writecheck" THEN "verify"
    ELSE IF p.queue_depth > 1 THEN "async" ELSE "in"

\* the locals of write_or_read at the top of its loop, in phase number ph
StartPhase(p, rank, ph, old) ==
    LET phase == Phases(p)[ph]
        rank_offset == RankOffset(p, rank, phase)
    IN [old EXCEPT
          !.ph = ph,
          !.phase = phase,
          !.pc = PhaseEntry(p, phase),
          !.rank_offset = rank_offset,
          !.random_offsets = RandomOffsets(p, pretend_rank(p, rank, rank_offset)),
          !.seg = 0,
          !.j = 0,
          !.hit_stonewall = FALSE,
          !.data_moved = 0,
          !.seen = FALSE,
          !.min_due = (p.min_time_duration = 0),
          !.pass = 0,
          !.left_at = <<>>]

NewTask ==
    [ph |-> 0, phase |-> "none", pc |-> "none", rank_offset |-> 0,
     random_offsets |-> <<>>, seg |-> 0, j |-> 0, hit_stonewall |-> FALSE,
     data_moved |-> 0, errors |-> NoCount, seen |-> FALSE, min_due |-> TRUE, pass |-> 0,
     nbcast |-> 0, left_at |-> <<>>, issued |-> NoIssued, verified |-> NoCount,
     total_errors |-> NoReport, fsyncs |-> NoCount]

\* the write buffer at the transfer to the offset: the base pattern, stamped
WriteBuffer(p, pr, offset) ==
    update_write_pattern(offset,
                         generate_memory_pattern(p.transfer_size,
                                                 p.time_stamp_signature_value, pr),
                         pr, p.data_packet_type)

\* write_or_read: if params.fsync_per_write && access == XferDir::Write
FsyncAfter(p, phase) == p.fsync_per_write /\ phase = "write"

\* the stonewall check after a transfer reads the clock
SeenAfter(p, t) == IF p.deadline_for_stonewalling > 0 THEN Later(t.seen) ELSE {t.seen}

\* write_or_read: one round of the inner loop, from the offset calculation to
\* the stonewall check
SyncXfer(r) ==
    LET t == tasks[r]
        pr == pretend_rank(sparams, r, t.rank_offset)
        offset == XferOffset(sparams, pr, t.random_offsets, t.seg, t.j)
        f == get_test_file_name(sparams, r, t.rank_offset)
        wbuf == WriteBuffer(sparams, pr, offset)
        rbuf == ReadAt(files[f], offset, sparams.transfer_size)
        checks == t.phase = "read" /\ sparams.check_read
        found == IF checks
                 THEN verify_pattern(offset, rbuf, sparams.time_stamp_signature_value,
                                     pr, sparams.data_packet_type)
                 ELSE 0
    IN /\ t.pc = "in"
       /\ ~t.hit_stonewall
       /\ t.j < NumOffsets(sparams, t.random_offsets)
       /\ \E seen \in SeenAfter(sparams, t) :
             tasks' = [tasks EXCEPT ![r] =
                         [t EXCEPT !.j = t.j + 1,
                                   !.data_moved = t.data_moved + sparams.transfer_size,
                                   !.issued[t.phase] = Append(t.issued[t.phase], offset),
                                   !.errors[t.phase] = t.errors[t.phase] + found,
                                   !.verified[t.phase] = t.verified[t.phase]
                                                         + (IF checks THEN 1 ELSE 0),
                                   !.fsyncs[t.phase] = t.fsyncs[t.phase]
                                                       + (IF FsyncAfter(sparams, t.phase)
                                                          THEN 1 ELSE 0),
                                   !.seen = seen,
                                   !.hit_stonewall = t.hit_stonewall \/ seen]]
       /\ files' = IF t.phase = "write"
                   THEN [files EXCEPT ![f] = WriteAt(files[f], offset, wbuf)]
                   ELSE files
       /\ UNCHANGED <<sparams, bflags>>
       /\ UNCHANGED <<pipe_vars, pool_vars, client_vars, mpi_vars, io_vars, call>>

BroadcastsNever(p) == FALSE

\* the stonewall flag is broadcast at the end of a segment
Broadcasts(p) == p.deadline_for_stonewalling > 0 /\ ~p.file_per_proc

\* write_or_read: the end of a segment: the inner loop is left, the stonewall
\* flag of rank 0 is broadcast, and the segment loop goes on or is left
SyncSegEnd(r) ==
    LET t == tasks[r]
    IN /\ t.pc = "in"
       /\ t.hit_stonewall \/ t.j >= NumOffsets(sparams, t.random_offsets)
       /\ Broadcasts(sparams) /\ r # 0 => t.nbcast < Len(bflags)
       /\ LET hit == IF Broadcasts(sparams) /\ r # 0 THEN bflags[t.nbcast + 1]
                     ELSE t.hit_stonewall
              seg == t.seg + 1
              goes == seg < sparams.segment_count /\ ~hit
          IN /\ tasks' = [tasks EXCEPT ![r] =
                            [t EXCEPT !.hit_stonewall = hit,
                                      !.nbcast = IF Broadcasts(sparams) THEN t.nbcast + 1
                                                 ELSE t.nbcast,
                                      !.seg = seg,
                                      !.j = 0,
                                      !.pc = IF goes THEN "in" ELSE "passend",
                                      !.left_at = IF goes THEN t.left_at
                                                  ELSE Append(t.left_at, seg)]]
             /\ bflags' = IF Broadcasts(sparams) /\ r = 0
                          THEN Append(bflags, t.hit_stonewall) ELSE bflags
       /\ UNCHANGED <<sparams, files>>
       /\ UNCHANGED <<pipe_vars, pool_vars, client_vars, mpi_vars, io_vars, call>>

PassDoneAlways(p, due) == TRUE

\* if elapsed >= min_time_duration || min_time_duration == 0 { break }
PassDone(p, due) == due \/ p.min_time_duration = 0

\* write_or_read: "Check min_time_duration": return, or run the segment loop again
SyncPassEnd(r) ==
    LET t == tasks[r]
    IN /\ t.pc = "passend"
       /\ \E due \in (IF sparams.min_time_duration > 0 THEN Later(t.min_due)
                      ELSE {t.min_due}) :
             IF PassDone(sparams, due)
             THEN tasks' = [tasks EXCEPT ![r] = [t EXCEPT !.min_due = due, !.pc = "returned"]]
             ELSE /\ t.pass < MaxRestarts
                  /\ tasks' = [tasks EXCEPT ![r] =
                                 [t EXCEPT !.pass = t.pass + 1,
                                           !.seg = 0,
                                           !.j = 0,
                                           !.pc = IF t.hit_stonewall THEN "passend" ELSE "in",
                                           !.left_at = IF t.hit_stonewall
                                                       THEN Append(t.left_at, 0)
                                                       ELSE t.left_at]]
       /\ UNCHANGED <<sparams, bflags, files>>
       /\ UNCHANGED <<pipe_vars, pool_vars, client_vars, mpi_vars, io_vars, call>>

\* write_or_read_verify: one round of its inner loop; after the last one the
\* file is closed and the error count returned
SyncVerifyXfer(r) ==
    LET t == tasks[r]
        pr == pretend_rank(sparams, r, t.rank_offset)
        offset == IF sparams.file_per_proc
                  THEN t.j * sparams.transfer_size + t.seg * sparams.block_size
                  ELSE t.j * sparams.transfer_size
                       + t.seg * sparams.num_tasks * sparams.block_size
                       + pr * sparams.block_size
        f == get_test_file_name(sparams, r, t.rank_offset)
        rbuf == ReadAt(files[f], offset, sparams.transfer_size)
        found == verify_pattern(offset, rbuf, sparams.time_stamp_signature_value,
                                pr, sparams.data_packet_type)
        last_j == t.j + 1 >= offsets_per_block(sparams)
        last == last_j /\ t.seg + 1 >= sparams.segment_count
    IN /\ t.pc = "verify"
       /\ tasks' = [tasks EXCEPT ![r] =
                      [t EXCEPT !.j = IF last_j THEN 0 ELSE t.j + 1,
                                !.seg = IF last_j THEN t.seg + 1 ELSE t.seg,
                                !.issued[t.phase] = Append(t.issued[t.phase], offset),
                                !.errors[t.phase] = t.errors[t.phase] + found,
                                !.verified[t.phase] = t.verified[t.phase] + 1,
                                !.pc = IF last THEN "returned" ELSE "verify"]]
       /\ UNCHANGED <<sparams, bflags, files>>
       /\ UNCHANGED <<pipe_vars, pool_vars, client_vars, mpi_vars, io_vars, call>>

\* write_or_read_async on a faithful backend, seen from the file: transfer
\* number j is submitted and completes; after the last one the byte count is
\* returned. The buffers hold the base pattern of generate_memory_pattern, and
\* a read is followed by no call of verify_pattern.
AsyncRankXfer(r) ==
    LET t == tasks[r]
        pr == pretend_rank(sparams, r, t.rank_offset)
        offset == calc_offset(sparams, pr, t.random_offsets, t.j)
        f == get_test_file_name(sparams, r, t.rank_offset)
        total == AsyncTotalXfers(sparams, t.random_offsets)
    IN /\ t.pc = "async"
       /\ IF t.j < total
          THEN /\ tasks' = [tasks EXCEPT ![r] =
                              [t EXCEPT !.j = t.j + 1,
                                        !.data_moved = t.data_moved + sparams.transfer_size,
                                        !.issued[t.phase] = Append(t.issued[t.phase], offset),
                                        !.pc = IF t.j + 1 >= total THEN "returned"
                                               ELSE "async"]]
               /\ files' = IF t.phase = "write"
                           THEN [files EXCEPT ![f] =
                                   WriteAt(files[f], offset, WriteBuffer(sparams, pr, offset))]
                           ELSE files
          ELSE /\ tasks' = [tasks EXCEPT ![r] = [t EXCEPT !.pc = "returned"]]
               /\ files' = files
       /\ UNCHANGED <<sparams, bflags>>
       /\ UNCHANGED <<pipe_vars, pool_vars, client_vars, mpi_vars, io_vars, call>>

\* comm.all_reduce_into(&errors, &mut total_errors, sum)
RECURSIVE SumErrors(_, _)
SumErrors(rs, phase) ==
    IF rs = {} THEN 0
    ELSE LET q == CHOOSE x \in rs : TRUE
         IN tasks[q].errors[phase] + SumErrors(rs \ {q}, phase)

\* run_benchmark, run_benchmark_async: the phases whose error counts are
\* all-reduced: WRITECHECK, and the read phase of run_benchmark under check_read
AllReduces(p, phase) ==
    \/ phase = "writecheck"
    \/ phase = "read" /\ p.check_read /\ p.queue_depth <= 1

\* run_benchmark: after write_or_read has returned, the all_reduce of the error
\* counts and the barrier that ends the phase; then the next phase begins, or
\* the repetition is over
SyncPhaseEnd(r) ==
    LET t == tasks[r]
        u == IF AllReduces(sparams, t.phase)
             THEN [t EXCEPT !.total_errors[t.phase] = SumErrors(Tasks, t.phase)]
             ELSE t
    IN /\ t.pc = "returned"
       /\ \A q \in Tasks : tasks[q].ph > t.ph \/ (tasks[q].ph = t.ph /\ tasks[q].pc \in {"returned", "over"})
       /\ tasks' = [tasks EXCEPT ![r] =
                      IF t.ph < Len(Phases(sparams))
                      THEN StartPhase(sparams, r, t.ph + 1, u)
                      ELSE [u EXCEPT !.pc = "over"]]
       /\ UNCHANGED <<sparams, bflags, files>>
       /\ UNCHANGED <<pipe_vars, pool_vars, client_vars, mpi_vars, io_vars, call>>

\* the parts of the model that a run of the sync loop does not use
OthersUnused ==
    /\ params = [queue_depth |-> 1, total_xfers |-> 0, transfer_size |-> 2,
                 deadline_for_stonewalling |-> 0, min_time_duration |-> 0]
    /\ faults = "none"
    /\ stonewall_due = FALSE /\ min_time_due = TRUE
    /\ pc = "sync"
    /\ submitted = 0 /\ completed = 0 /\ in_flight = 0 /\ buf_idx = 0
    /\ state = [completed_count |-> 0, total_bytes |-> 0, error |-> 0]
    /\ result = NoResult
    /\ restarts = 0
    /\ first_error = 0
    /\ next_token = 1 /\ pool_pending = <<>> /\ shutdown = FALSE
    /\ pool_completed = <<>> /\ workers = <<>>
    /\ ClientUnused
    /\ MpiUnused
    /\ IoUnused

EngineParams ==
    [num_tasks : {1, MaxTasks}, segment_count : {1, MaxSegments},
     block_size : {8, 8 * MaxOffsets}, transfer_size : {8},
     file_per_proc : BOOLEAN, random_offset : BOOLEAN, random_seed : {-1, 1},
     deadline_for_stonewalling : {0, 1}, min_time_duration : {0, 1},
     check_write : {FALSE}, read_file : {FALSE}, check_read : {FALSE},
     reorder_tasks : {FALSE}, reorder_tasks_random : {FALSE},
     task_per_node_offset : {1}, reorder_tasks_random_seed : {0},
     data_packet_type : {"Timestamp"}, time_stamp_signature_value : {0},
     queue_depth : {1}, fsync_per_write : {FALSE}]

\* the runs of the transfer loop explored: one write phase; the seed varies
\* where it is used, and a run with min_time_duration, where every rank
\* decides from its own clock alone, has one rank
EngineRuns ==
    {p \in EngineParams :
        /\ ~p.random_offset => p.random_seed = -1
        /\ p.min_time_duration > 0 => p.num_tasks = 1}

SyncStart ==
    /\ tasks = [r \in 0..(sparams.num_tasks - 1) |-> StartPhase(sparams, r, 1, NewTask)]
    /\ bflags = <<>>
    /\ files = NoFiles(sparams)

EngineInit ==
    /\ sparams \in EngineRuns
    /\ SyncStart
    /\ OthersUnused
    /\ CallUnused

EngineNext ==
    \/ \E r \in Tasks : SyncXfer(r)
    \/ \E r \in Tasks : SyncSegEnd(r)
    \/ \E r \in Tasks : SyncPassEnd(r)
    \/ \E r \in Tasks : SyncPhaseEnd(r)

EngineSpec == EngineInit /\ [][EngineNext]_vars

\* the runs of a whole repetition explored: a write phase followed by
\* WRITECHECK or by a checked read phase, with no deadline and no minimum
\* duration; the async path with the pattern that is never restamped
VerifyParams ==
    [num_tasks : {1, MaxTasks}, segment_count : {1, MaxSegments},
     block_size : {8, 8 * MaxOffsets}, transfer_size : {8},
     file_per_proc : BOOLEAN, random_offset : BOOLEAN, random_seed : {-1, 1},
     deadline_for_stonewalling : {0}, min_time_duration : {0},
     check_write : BOOLEAN, read_file : BOOLEAN, check_read : BOOLEAN,
     reorder_tasks : BOOLEAN, reorder_tasks_random : BOOLEAN,
     task_per_node_offset : {1}, reorder_tasks_random_seed : {1},
     data_packet_type : {"Timestamp", "Offset"}, time_stamp_signature_value : {3},
     queue_depth : {1, 2}, fsync_per_write : BOOLEAN]

VerifyRuns ==
    {p \in VerifyParams :
        /\ ~p.random_offset => p.random_seed = -1
        /\ p.check_write # p.read_file
        /\ p.check_read = p.read_file
        /\ ~p.read_file => ~p.reorder_tasks /\ ~p.reorder_tasks_random
        /\ ~(p.reorder_tasks /\ p.reorder_tasks_random)
        /\ p.check_write => p.data_packet_type = "Timestamp"
        /\ p.fsync_per_write =>
              /\ p.read_file /\ ~p.random_offset /\ p.data_packet_type = "Timestamp"
              /\ ~p.reorder_tasks /\ ~p.reorder_tasks_random
        /\ p.queue_depth > 1 =>
              /\ p.data_packet_type = "Timestamp"
              /\ ~p.reorder_tasks /\ ~p.reorder_tasks_random
              /\ p.random_seed = -1}

VerifyInit ==
    /\ sparams \in VerifyRuns
    /\ SyncStart
    /\ OthersUnused
    /\ CallUnused

VerifyNext ==
    \/ EngineNext
    \/ \E r \in Tasks : SyncVerifyXfer(r)
    \/ \E r \in Tasks : AsyncRankXfer(r)

VerifySpec == VerifyInit /\ [][VerifyNext]_vars

\* either engine, the async pipeline over its pool or the sync loop, in a run
\* with a minimum duration and no deadline
MinTimeInit ==
    \/ Init /\ params.min_time_duration > 0 /\ params.deadline_for_stonewalling = 0
    \/ EngineInit /\ sparams.min_time_duration > 0
                  /\ sparams.deadline_for_stonewalling = 0

EnginesNext == Next \/ EngineNext

MinTimeSpec == MinTimeInit /\ [][EnginesNext]_vars

(* ------------------- one call of the data pattern ------------------------ *)

\* the longest short buffer, in words
MaxPatternWords == 2

PatternSeeds == {-1, 3, 2147483647}

PatternOffsets == {0, 8, 1073741824}

\* buffer lengths: empty, one word, a few words, and one word past a stamp
PatternLens == {0, 8, 8 * MaxPatternWords, 8 * (STAMP_STRIDE + 1)}

PatternArgs ==
    [seed : PatternSeeds, pretend_rank : {0, 1}, offset : PatternOffsets,
     verify_offset : {0, 8}, len : PatternLens, data_type : {"Timestamp", "Offset"}]

\* the long buffer is tried with one seed and one offset of verification
PatternRuns ==
    {a \in PatternArgs :
        a.len > 8 * MaxPatternWords => a.seed = -1 /\ a.verify_offset = 0}

\* the words of a buffer of len bytes that the check overwrites
FlipWords(len) == {0, len \div 8 - 1, STAMP_STRIDE} \cap 0..(len \div 8 - 1)

PatternInit ==
    /\ \E a \in PatternRuns :
          call = [pc |-> "ready", fn |-> "pattern", args |-> a, buf |-> <<>>,
                  generated |-> -1, unchanged |-> FALSE, updated |-> -1,
                  word |-> -1, changed |-> -1]
    /\ OthersUnused
    /\ SyncUnused

\* generate_memory_pattern on a fresh buffer
PatternGenerate ==
    /\ call.pc = "ready" /\ call.fn = "pattern"
    /\ call' = [call EXCEPT
                  !.pc = "generated",
                  !.buf = generate_memory_pattern(call.args.len, call.args.seed,
                                                  call.args.pretend_rank)]
    /\ UNCHANGED <<pipe_vars, pool_vars, client_vars, mpi_vars, io_vars, sync_vars>>

\* verify_pattern on the generated buffer, then update_write_pattern
PatternUpdate ==
    /\ call.pc = "generated"
    /\ LET a == call.args
       IN call' = [call EXCEPT
                     !.pc = "updated",
                     !.generated = verify_pattern(a.verify_offset, call.buf, a.seed,
                                                  a.pretend_rank, a.data_type),
                     !.unchanged = (update_write_pattern(a.offset, call.buf,
                                                         a.pretend_rank, a.data_type)
                                    = call.buf),
                     !.buf = update_write_pattern(a.offset, call.buf, a.pretend_rank,
                                                  a.data_type)]
    /\ UNCHANGED <<pipe_vars, pool_vars, client_vars, mpi_vars, io_vars, sync_vars>>

\* verify_pattern on the updated buffer; then one byte of one word is changed
PatternVerify ==
    /\ call.pc = "updated"
    /\ LET a == call.args
       IN \E w \in FlipWords(a.len) \cup {-1}, k \in {0, 7} :
             /\ (w = -1) = (FlipWords(a.len) = {})
             /\ call' = [call EXCEPT
                           !.pc = "verified",
                           !.updated = verify_pattern(a.offset, call.buf, a.seed,
                                                      a.pretend_rank, a.data_type),
                           !.word = w,
                           !.buf = IF w = -1 THEN call.buf
                                   ELSE [call.buf EXCEPT ![8 * w + k + 1] = (@ + 1) % 256]]
    /\ UNCHANGED <<pipe_vars, pool_vars, client_vars, mpi_vars, io_vars, sync_vars>>

\* verify_pattern on the changed buffer
PatternVerifyChanged ==
    /\ call.pc = "verified"
    /\ LET a == call.args
       IN call' = [call EXCEPT
                     !.pc = "done",
                     !.changed = verify_pattern(a.offset, call.buf, a.seed,
                                                a.pretend_rank, a.data_type),
                     !.buf = <<>>]
    /\ UNCHANGED <<pipe_vars, pool_vars, client_vars, mpi_vars, io_vars, sync_vars>>

PatternNext == PatternGenerate \/ PatternUpdate \/ PatternVerify \/ PatternVerifyChanged

PatternSpec == PatternInit /\ [][PatternNext]_vars

(* ------------------ optional methods of the backends ---------------------- *)

\* calls made on one backend in a run
MaxCalls == 2

EEXIST == 17
ENOENT == 2
ENOTDIR == 20
EIO == 5

Paths == {"a", "b"}

MetadataOps == {"mkdir", "rmdir", "stat", "rename", "mknod"}

AsyncOps == {"xfer_submit", "poll", "cancel"}

\* the optional methods of Aiori that the impl block of a backend defines
Overrides(kind) ==
    CASE kind = "POSIX" -> MetadataOps \cup AsyncOps
      [] kind = "BENCHFS" -> {"mkdir", "rmdir", "stat", "rename"} \cup AsyncOps
      [] kind = "CHFS" -> {"mkdir", "rmdir", "stat"} \cup AsyncOps

\* PosixBackend::new and with_pool, BenchfsBackend before and after configure
\* has set its context, ChfsBackend
Backends ==
    {[kind |-> "POSIX", pool |-> FALSE, ctx |-> TRUE],
     [kind |-> "POSIX", pool |-> TRUE, ctx |-> TRUE],
     [kind |-> "BENCHFS", pool |-> FALSE, ctx |-> FALSE],
     [kind |-> "BENCHFS", pool |-> FALSE, ctx |-> TRUE],
     [kind |-> "CHFS", pool |-> FALSE, ctx |-> TRUE]}

OkRet(v) == [kind |-> "Ok", val |-> v]
ErrRet(e) == [kind |-> "Err", val |-> e]
IoErr(errno) == ErrRet(<<"Io", errno>>)

\* what a backend holds: the directories and files of its file system, the
\* tokens of the transfers queued in its pool, and the token counter
NoBackendState == [dirs |-> {}, files |-> {}, queued |-> <<>>, next |-> 1]

\* the file system's answer to a metadata call: rc, errno and the new state
Libc(st, op, path, new_path) ==
    LET there == path \in st.dirs \cup st.files
        fail(e) == [rc |-> -1, errno |-> e, st |-> st]
        done(t) == [rc |-> 0, errno |-> 0, st |-> t]
    IN CASE op = "mkdir" ->
              IF there THEN fail(EEXIST) ELSE done([st EXCEPT !.dirs = @ \cup {path}])
         [] op = "mknod" ->
              IF there THEN fail(EEXIST) ELSE done([st EXCEPT !.files = @ \cup {path}])
         [] op = "rmdir" ->
              IF path \in st.dirs THEN done([st EXCEPT !.dirs = @ \ {path}])
              ELSE IF there THEN fail(ENOTDIR) ELSE fail(ENOENT)
         [] op = "stat" -> IF there THEN done(st) ELSE fail(ENOENT)
         [] op = "rename" ->
              IF ~there THEN fail(ENOENT)
              ELSE IF path = new_path THEN done(st)
              ELSE IF path \in st.dirs
                   THEN IF new_path \in st.files THEN fail(ENOTDIR)
                        ELSE done([st EXCEPT !.dirs = (@ \ {path}) \cup {new_path}])
                   ELSE IF new_path \in st.dirs THEN fail(EEXIST)
                        ELSE done([st EXCEPT !.files = (@ \ {path}) \cup {new_path}])

\* the body of a metadata method that a backend defines
DefinedMetadata(b, st, op, path, new_path) ==
    LET r == Libc(st, op, path, new_path)
    IN IF b.kind = "BENCHFS" /\ ~b.ctx
       THEN [ret |-> ErrRet("NotSupported"), st |-> st]
       ELSE IF r.rc # 0
            THEN [ret |-> IoErr(IF b.kind = "BENCHFS" THEN EIO ELSE r.errno), st |-> st]
            ELSE [ret |-> OkRet(0), st |-> r.st]

\* Aiori: the default body of mkdir, rmdir, stat, rename and mknod
DefaultMetadata(st) == [ret |-> ErrRet("NotSupported"), st |-> st]

\* a metadata method of a backend: its own body, or the default one
Metadata(b, st, op, path, new_path) ==
    IF op \in Overrides(b.kind) THEN DefinedMetadata(b, st, op, path, new_path)
    ELSE DefaultMetadata(st)

pool_ok_or_unknown(b) == IF b.pool THEN "Ok" ELSE "Unknown"

\* self.pool.as_ref().ok_or(IorError::NotSupported)
pool_ok_or(b) == IF b.pool THEN "Ok" ELSE "NotSupported"

\* xfer_submit, given a handle that create or open of this backend returned
xfer_submit(b, st, handle) ==
    IF b.kind # "POSIX" THEN [ret |-> ErrRet("NotSupported"), st |-> st]
    ELSE IF handle # "PosixFd" THEN [ret |-> ErrRet("InvalidArgument"), st |-> st]
    ELSE IF pool_ok_or(b) # "Ok" THEN [ret |-> ErrRet(pool_ok_or(b)), st |-> st]
    ELSE [ret |-> OkRet(st.next),
          st |-> [st EXCEPT !.queued = Append(@, st.next),
                            !.next = next_xfer_token(st.next)]]

\* poll: n of the queued transfers have completed and are dispatched
poll(b, st, n) ==
    IF b.kind # "POSIX" THEN [ret |-> ErrRet("NotSupported"), st |-> st]
    ELSE IF pool_ok_or(b) # "Ok" THEN [ret |-> ErrRet(pool_ok_or(b)), st |-> st]
    ELSE [ret |-> OkRet(n),
          st |-> [st EXCEPT !.queued = SubSeq(@, n + 1, Len(@))]]

\* cancel
cancel(b, st, token) ==
    IF b.kind # "POSIX" THEN [ret |-> ErrRet("NotSupported"), st |-> st]
    ELSE IF pool_ok_or(b) # "Ok" THEN [ret |-> ErrRet(pool_ok_or(b)), st |-> st]
    ELSE IF \E i \in 1..Len(st.queued) : st.queued[i] = token
         THEN [ret |-> OkRet(0),
               st |-> [st EXCEPT !.queued = SelectSeq(@, LAMBDA t : t # token)]]
         ELSE [ret |-> ErrRet("NotFound"), st |-> st]

BackendInit ==
    /\ \E b \in Backends :
          call = [pc |-> "ready", fn |-> "backend", backend |-> b,
                  st |-> NoBackendState, n |-> 0, op |-> "none",
                  ret |-> NoResult, before |-> NoBackendState]
    /\ OthersUnused
    /\ SyncUnused

\* a further call may be made on the backend
CanCall == call.pc = "ready" /\ call.fn = "backend" /\ call.n < MaxCalls

\* the record of a call of a method, r being what the method gives
Called(op, r) ==
    [call EXCEPT !.n = @ + 1, !.op = op, !.ret = r.ret, !.st = r.st, !.before = call.st]

BackendMkdir ==
    /\ CanCall
    /\ \E path \in Paths :
          call' = Called("mkdir", Metadata(call.backend, call.st, "mkdir", path, path))
    /\ UNCHANGED <<pipe_vars, pool_vars, client_vars, mpi_vars, io_vars, sync_vars>>

BackendRmdir ==
    /\ CanCall
    /\ \E path \in Paths :
          call' = Called("rmdir", Metadata(call.backend, call.st, "rmdir", path, path))
    /\ UNCHANGED <<pipe_vars, pool_vars, client_vars, mpi_vars, io_vars, sync_vars>>

BackendStat ==
    /\ CanCall
    /\ \E path \in Paths :
          call' = Called("stat", Metadata(call.backend, call.st, "stat", path, path))
    /\ UNCHANGED <<pipe_vars, pool_vars, client_vars, mpi_vars, io_vars, sync_vars>>

BackendRename ==
    /\ CanCall
    /\ \E old_path, new_path \in Paths :
          call' = Called("rename",
                         Metadata(call.backend, call.st, "rename", old_path, new_path))
    /\ UNCHANGED <<pipe_vars, pool_vars, client_vars, mpi_vars, io_vars, sync_vars>>

BackendMknod ==
    /\ CanCall
    /\ \E path \in Paths :
          call' = Called("mknod", Metadata(call.backend, call.st, "mknod", path, path))
    /\ UNCHANGED <<pipe_vars, pool_vars, client_vars, mpi_vars, io_vars, sync_vars>>

BackendXferSubmit ==
    /\ CanCall
    /\ call' = Called("xfer_submit", xfer_submit(call.backend, call.st, "PosixFd"))
    /\ UNCHANGED <<pipe_vars, pool_vars, client_vars, mpi_vars, io_vars, sync_vars>>

BackendPoll ==
    /\ CanCall
    /\ \E n \in 0..Len(call.st.queued) :
          call' = Called("poll", poll(call.backend, call.st, n))
    /\ UNCHANGED <<pipe_vars, pool_vars, client_vars, mpi_vars, io_vars, sync_vars>>

BackendCancel ==
    /\ CanCall
    /\ \E token \in 1..MaxCalls :
          call' = Called("cancel", cancel(call.backend, call.st, token))
    /\ UNCHANGED <<pipe_vars, pool_vars, client_vars, mpi_vars, io_vars, sync_vars>>

BackendNext ==
    \/ BackendMkdir \/ BackendRmdir \/ BackendStat \/ BackendRename \/ BackendMknod
    \/ BackendXferSubmit \/ BackendPoll \/ BackendCancel

BackendSpec == BackendInit /\ [][BackendNext]_vars

(* ------------------------- open flags ------------------------------------- *)

\* the bits of OpenFlags
OpenFlagBits == {"RDONLY", "WRONLY", "RDWR", "APPEND", "CREAT", "TRUNC", "EXCL", "DIRECT"}

\* the values of libc's O_* flags on Linux
O_RDONLY == 0
O_WRONLY == 1
O_RDWR == 2
O_ACCMODE == 3
O_CREAT == 64
O_EXCL == 128
O_TRUNC == 512
O_APPEND == 1024
O_DIRECT == 16384

RECURSIVE BitOr(_, _)
\* a | b on nonnegative integers
BitOr(a, b) ==
    IF a = 0 THEN b
    ELSE IF b = 0 THEN a
    ELSE (IF a % 2 = 1 \/ b % 2 = 1 THEN 1 ELSE 0) + 2 * BitOr(a \div 2, b \div 2)

\* oflags |= bit, when cond holds
OrIf(oflags, cond, bit) == IF cond THEN BitOr(oflags, bit) ELSE oflags

\* PosixBackend::to_libc_flags
to_libc_flags(direct_io, flags) ==
    LET f1 == OrIf(0, "RDONLY" \in flags /\ ~({"WRONLY", "RDWR"} \subseteq flags), O_RDONLY)
        f2 == OrIf(f1, "WRONLY" \in flags, O_WRONLY)
        f3 == OrIf(f2, "RDWR" \in flags, O_RDWR)
        f4 == OrIf(f3, "APPEND" \in flags, O_APPEND)
        f5 == OrIf(f4, "CREAT" \in flags, O_CREAT)
        f6 == OrIf(f5, "TRUNC" \in flags, O_TRUNC)
        f7 == OrIf(f6, "EXCL" \in flags, O_EXCL)
    IN OrIf(f7, "DIRECT" \in flags \/ direct_io, O_DIRECT)

\* the access mode the operating system reads from the flags of open(2)
AccessMode(oflags) == oflags % (O_ACCMODE + 1)

OpenInit ==
    /\ \E flags \in SUBSET OpenFlagBits, direct_io \in BOOLEAN :
          call = [pc |-> "ready", fn |-> "open", flags |-> flags,
                  direct_io |-> direct_io, op |-> "none", oflags |-> -1]
    /\ OthersUnused
    /\ SyncUnused

\* PosixBackend::create, up to its call of libc::open
OpenCreate ==
    /\ call.pc = "ready" /\ call.fn = "open"
    /\ call' = [call EXCEPT !.pc = "done", !.op = "create",
                   !.oflags = to_libc_flags(call.direct_io, call.flags \cup {"CREAT", "RDWR"})]
    /\ UNCHANGED <<pipe_vars, pool_vars, client_vars, mpi_vars, io_vars, sync_vars>>

\* PosixBackend::open, up to its call of libc::open
OpenOpen ==
    /\ call.pc = "ready" /\ call.fn = "open"
    /\ call' = [call EXCEPT !.pc = "done", !.op = "open",
                   !.oflags = to_libc_flags(call.direct_io, call.flags)]
    /\ UNCHANGED <<pipe_vars, pool_vars, client_vars, mpi_vars, io_vars, sync_vars>>

OpenNext == OpenCreate \/ OpenOpen

OpenSpec == OpenInit /\ [][OpenNext]_vars

(* ------------------------- main of ior-bench ------------------------------- *)

\* the exit code of a process that panicked
PANIC_EXIT == 101

KIB == 1024
MIB == 1048576
GIB == 1073741824

Digits == <<"0", "1", "2", "3", "4", "5", "6", "7", "8", "9">>

IsDigit(c) == \E d \in 1..10 : Digits[d] = c

DigitValue(c) == (CHOOSE d \in 1..10 : Digits[d] = c) - 1

RECURSIVE ParseDigits(_)
\* the value of a sequence of decimal digits
ParseDigits(cs) ==
    IF cs = <<>> THEN 0
    ELSE 10 * ParseDigits(SubSeq(cs, 1, Len(cs) - 1)) + DigitValue(cs[Len(cs)])

\* str::parse::<i64>: an optional sign and at least one digit, Err otherwise
ParseI64(cs) ==
    LET signed == cs # <<>> /\ cs[1] \in {"-", "+"}
        digits == IF signed THEN Tail(cs) ELSE cs
    IN IF digits = <<>> \/ \E i \in 1..Len(digits) : ~IsDigit(digits[i])
       THEN [ok |-> FALSE, val |-> 0]
       ELSE IF signed /\ cs[1] = "-" THEN [ok |-> TRUE, val |-> 0 - ParseDigits(digits)]
       ELSE [ok |-> TRUE, val |-> ParseDigits(digits)]

\* parse_size on a string given by its characters (the t suffix, 2^40, is
\* beyond the integers of the model and is not among the arguments drawn);
\* ok is FALSE where the number does not parse and parse_size panics
parse_size(cs) ==
    LET last == IF cs = <<>> THEN "" ELSE cs[Len(cs)]
        front == SubSeq(cs, 1, Len(cs) - 1)
        multiplier == CASE last \in {"k", "K"} -> KIB
                        [] last \in {"m", "M"} -> MIB
                        [] last \in {"g", "G"} -> GIB
                        [] OTHER -> 1
        num_str == IF last \in {"k", "K", "m", "M", "g", "G"} THEN front ELSE cs
    IN IF cs = <<>> THEN [ok |-> TRUE, val |-> 0]
       ELSE IF ~ParseI64(num_str).ok THEN [ok |-> FALSE, val |-> 0]
       ELSE [ok |-> TRUE, val |-> ParseI64(num_str).val * multiplier]

\* values of -b and -t on the command line
SizeArgs ==
    {<<"1", "0">>, <<"4">>, <<"8">>, <<"0">>, <<"-", "8">>, <<"1", "k">>, <<>>, <<"k">>}

\* values of -N on the command line
NumTasksArgs == {-1, 1, MaxTasks + 1}

MainInit ==
    /\ \E b \in SizeArgs, t \in SizeArgs, n \in NumTasksArgs, mpi_size \in 1..MaxTasks :
         \E rank \in 0..(mpi_size - 1) :
          call = [pc |-> "start", fn |-> "main",
                  args |-> [block_size |-> b, transfer_size |-> t, num_tasks |-> n],
                  mpi_size |-> mpi_size, rank |-> rank, params |-> <<>>,
                  handed |-> <<>>, failed |-> "none", code |-> -1]
    /\ OthersUnused
    /\ SyncUnused

MainStep == <<pipe_vars, pool_vars, client_vars, mpi_vars, io_vars, sync_vars>>

\* CliArgs::into_ior_param
MainParse ==
    /\ call.fn = "main" /\ call.pc = "start"
    /\ LET b == parse_size(call.args.block_size)
           t == parse_size(call.args.transfer_size)
       IN IF ~b.ok \/ ~t.ok
          THEN call' = [call EXCEPT !.pc = "exited", !.failed = "panic", !.code = PANIC_EXIT]
          ELSE call' = [call EXCEPT !.pc = "parsed",
                           !.params = [block_size |-> b.val, transfer_size |-> t.val,
                                       num_tasks |-> call.args.num_tasks]]
    /\ UNCHANGED MainStep

\* main: num_tasks taken from MPI when unset or too large
MainNumTasks ==
    /\ call.fn = "main" /\ call.pc = "parsed"
    /\ call' = [call EXCEPT !.pc = "split",
                   !.params.num_tasks =
                       IF @ = -1 \/ @ > call.mpi_size THEN call.mpi_size ELSE @]
    /\ UNCHANGED MainStep

\* main: a rank outside the test communicator waits and returns
MainSplit ==
    /\ call.fn = "main" /\ call.pc = "split"
    /\ IF call.rank >= call.params.num_tasks
       THEN call' = [call EXCEPT !.pc = "exited", !.code = 0]
       ELSE call' = [call EXCEPT !.pc = "configure"]
    /\ UNCHANGED MainStep

\* main: select_backend and configure, which accepts the backend options or not
MainConfigure ==
    /\ call.fn = "main" /\ call.pc = "configure"
    /\ \E ok \in BOOLEAN :
          IF ok THEN call' = [call EXCEPT !.pc = "run"]
          ELSE call' = [call EXCEPT !.pc = "exited", !.failed = "configure", !.code = 0]
    /\ UNCHANGED MainStep

\* main: run_benchmark or run_benchmark_async is given the parameters and
\* returns Ok or a backend error, or panics on a transfer size that is not
\* positive
MainRun ==
    /\ call.fn = "main" /\ call.pc = "run"
    /\ \E outcome \in (IF call.params.transfer_size > 0 THEN {"none", "backend"}
                      ELSE {"backend", "panic"}) :
          call' = [call EXCEPT !.pc = "ran", !.handed = call.params, !.failed = outcome]
    /\ UNCHANGED MainStep

\* main: the outcome is reported, the ranks synchronise and main returns
MainExit ==
    /\ call.fn = "main" /\ call.pc = "ran"
    /\ call' = [call EXCEPT !.pc = "exited",
                   !.code = IF call.failed = "panic" THEN PANIC_EXIT ELSE 0]
    /\ UNCHANGED MainStep

MainNext ==
    \/ MainParse \/ MainNumTasks \/ MainSplit \/ MainConfigure \/ MainRun \/ MainExit

MainSpec == MainInit /\ [][MainNext]_vars

(* ------------------ test files over the repetitions ------------------------ *)

\* repetitions of a run
MaxRepetitions == 2

\* the stages of a repetition in which test files are touched
RepStages == <<"before", "phases", "cleanup", "after">>

StageIndex(stage) == CHOOSE i \in 1..4 : RepStages[i] = stage

\* how far a rank is: finished ranks are past every stage
RepPos(r) ==
    IF call.pcs[r] \in {"done", "failed"} THEN 4 * (MaxRepetitions + 1)
    ELSE 4 * call.rep[r] + StageIndex(call.pcs[r])

\* comm.barrier: every rank has come as far as rank r
RepBarrier(r) == \A q \in DOMAIN call.pcs : RepPos(q) >= RepPos(r)

\* remove_file: the files whose deletion rank asks of the backend
remove_file(p, rank, rank_offset) ==
    IF p.file_per_proc \/ rank = 0 THEN {get_test_file_name(p, rank, rank_offset)} ELSE {}

RepParams ==
    [keep_file : BOOLEAN, use_existing_test_file : BOOLEAN, file_per_proc : BOOLEAN,
     write_file : BOOLEAN, num_tasks : 1..MaxTasks, repetitions : 1..MaxRepetitions]

\* every test file of a run
RepFiles(p) == {get_test_file_name(p, r, 0) : r \in 0..(p.num_tasks - 1)}

RepInit ==
    /\ \E p \in RepParams, exist \in BOOLEAN :
          call = [pc |-> "ready", fn |-> "rep", params |-> p,
                  pcs |-> [r \in 0..(p.num_tasks - 1) |-> "before"],
                  rep |-> [r \in 0..(p.num_tasks - 1) |-> 0],
                  exist |-> IF exist THEN RepFiles(p) ELSE {},
                  cleaned |-> {}]
    /\ OthersUnused
    /\ SyncUnused

RepRank(r) == call.fn = "rep" /\ r \in DOMAIN call.pcs

\* run_benchmark, write phase: the file is removed unless an existing one is
\* to be used
RepBefore(r) ==
    /\ RepRank(r) /\ call.pcs[r] = "before"
    /\ call' = [call EXCEPT !.pcs[r] = "phases",
                   !.exist = IF call.params.write_file /\ ~call.params.use_existing_test_file
                             THEN @ \ remove_file(call.params, r, 0) ELSE @]
    /\ UNCHANGED MainStep

\* run_benchmark, the phases: after the barrier the write phase creates the
\* file; without a write phase the read phase opens it, and fails without it
RepPhases(r) ==
    /\ RepRank(r) /\ call.pcs[r] = "phases"
    /\ call.params.write_file => RepBarrier(r)
    /\ LET f == get_test_file_name(call.params, r, 0)
       IN IF call.params.write_file
          THEN call' = [call EXCEPT !.pcs[r] = "cleanup", !.exist = @ \cup {f}]
          ELSE IF f \in call.exist
               THEN call' = [call EXCEPT !.pcs[r] = "cleanup"]
               ELSE call' = [call EXCEPT !.pcs[r] = "failed"]
    /\ UNCHANGED MainStep

\* run_benchmark, cleanup: barrier and remove_file unless keep_file is set
RepCleanup(r) ==
    /\ RepRank(r) /\ call.pcs[r] = "cleanup"
    /\ ~call.params.keep_file => RepBarrier(r)
    /\ call' = [call EXCEPT !.pcs[r] = "after",
                   !.exist = IF ~call.params.keep_file
                             THEN @ \ remove_file(call.params, r, 0) ELSE @,
                   !.cleaned = IF ~call.params.keep_file
                               THEN @ \cup (remove_file(call.params, r, 0) \cap call.exist)
                               ELSE @]
    /\ UNCHANGED MainStep

\* run_benchmark: the barrier that ends the cleanup, and the next repetition
RepAfter(r) ==
    /\ RepRank(r) /\ call.pcs[r] = "after"
    /\ ~call.params.keep_file => RepBarrier(r)
    /\ IF call.rep[r] + 1 < call.params.repetitions
       THEN call' = [call EXCEPT !.pcs[r] = "before", !.rep[r] = @ + 1]
       ELSE call' = [call EXCEPT !.pcs[r] = "done"]
    /\ UNCHANGED MainStep

RepNext ==
    \E r \in 0..(MaxTasks - 1) : RepBefore(r) \/ RepPhases(r) \/ RepCleanup(r) \/ RepAfter(r)

RepSpec == RepInit /\ [][RepNext]_vars

(* ------------------------- backend options --------------------------------- *)

\* arguments on a command line
MaxArgs == 3

\* the characters of a segment of an option name: alphanumeric, '_' or '-'
SegmentChars == {"p", "k", "v", "w", "f", "t", "_", "-"}

\* the arguments a command line is made of, each by its characters:
\* -w, --p.k, --p.k=v, --p.k=, v, --v, --.k, f.t
ArgWords ==
    {<<"-", "w">>, <<"-", "-", "p", ".", "k">>, <<"-", "-", "p", ".", "k", "=", "v">>,
     <<"-", "-", "p", ".", "k", "=">>, <<"v">>, <<"-", "-", "v">>,
     <<"-", "-", ".", "k">>, <<"f", ".", "t">>}

RECURSIVE SeqsUpTo(_, _)
\* the sequences over S of length at most n
SeqsUpTo(S, n) ==
    IF n = 0 THEN {<<>>}
    ELSE LET shorter == SeqsUpTo(S, n - 1)
         IN shorter \cup {Append(q, x) : q \in {t \in shorter : Len(t) = n - 1}, x \in S}

\* the place of the first c in cs, 0 when there is none
IndexOf(cs, c) ==
    IF \E i \in 1..Len(cs) : cs[i] = c
    THEN CHOOSE i \in 1..Len(cs) : cs[i] = c /\ \A j \in 1..(i - 1) : cs[j] # c
    ELSE 0

\* str::starts_with("--")
HasDashDash(arg) == Len(arg) >= 2 /\ arg[1] = "-" /\ arg[2] = "-"

\* arg.strip_prefix("--")
OptionBody(arg) == SubSeq(arg, 3, Len(arg))

\* body.split('=').next(): the part before the first '='
BeforeEq(body) ==
    IF IndexOf(body, "=") = 0 THEN body ELSE SubSeq(body, 1, IndexOf(body, "=") - 1)

\* body.split_once('='), second part
AfterEq(body) == SubSeq(body, IndexOf(body, "=") + 1, Len(body))

\* is_backend_option: "--", then at least two segments separated by '.', each
\* non-empty and of segment characters
is_backend_option(arg) ==
    /\ HasDashDash(arg)
    /\ LET name == BeforeEq(OptionBody(arg))
       IN /\ IndexOf(name, ".") # 0
          /\ name[1] # "." /\ name[Len(name)] # "."
          /\ \A i \in 1..(Len(name) - 1) : ~(name[i] = "." /\ name[i + 1] = ".")
          /\ \A i \in 1..Len(name) : name[i] \in SegmentChars \cup {"."}

starts_with_dash_never(arg) == FALSE

\* str::starts_with('-')
starts_with_dash(arg) == arg # <<>> /\ arg[1] = "-"

Flag == [kind |-> "Flag", val |-> <<>>]
Str(v) == [kind |-> "Str", val |-> v]

\* BackendOptions::insert
OptsInsert(opts, key, value) == {e \in opts : e[1] # key} \cup {<<key, value>>}

ExtractInit ==
    /\ \E args \in SeqsUpTo(ArgWords, MaxArgs) :
          call = [pc |-> "loop", fn |-> "extract", args |-> args, i |-> 0,
                  filtered |-> <<>>, opts |-> {}, kept |-> <<>>,
                  taken |-> <<>>, inserted |-> <<>>]
    /\ OthersUnused
    /\ SyncUnused

\* extract_backend_options, one turn of the loop on an argument that is kept
ExtractKeep ==
    /\ call.fn = "extract" /\ call.pc = "loop" /\ call.i < Len(call.args)
    /\ LET arg == call.args[call.i + 1]
       IN /\ ~is_backend_option(arg)
          /\ call' = [call EXCEPT !.filtered = Append(@, arg), !.i = @ + 1,
                         !.kept = Append(@, call.i + 1)]
    /\ UNCHANGED MainStep

\* extract_backend_options, one turn of the loop on a backend option; kept,
\* taken and inserted record what became of each argument
ExtractOption ==
    /\ call.fn = "extract" /\ call.pc = "loop" /\ call.i < Len(call.args)
    /\ LET at == call.i + 1
           arg == call.args[at]
           body == OptionBody(arg)
       IN /\ is_backend_option(arg)
          /\ IF IndexOf(body, "=") # 0
             THEN call' = [call EXCEPT
                      !.opts = OptsInsert(@, BeforeEq(body), Str(AfterEq(body))),
                      !.i = @ + 1,
                      !.taken = @ \o <<[at |-> at, as |-> "option"]>>,
                      !.inserted = Append(@, <<at, BeforeEq(body), Str(AfterEq(body))>>)]
             ELSE IF call.i + 1 < Len(call.args) /\ ~starts_with_dash(call.args[at + 1])
             THEN call' = [call EXCEPT
                      !.opts = OptsInsert(@, body, Str(call.args[at + 1])),
                      !.i = @ + 2,
                      !.taken = @ \o <<[at |-> at, as |-> "option"],
                                       [at |-> at + 1, as |-> "value"]>>,
                      !.inserted = Append(@, <<at, body, Str(call.args[at + 1])>>)]
             ELSE call' = [call EXCEPT
                      !.opts = OptsInsert(@, body, Flag),
                      !.i = @ + 1,
                      !.taken = @ \o <<[at |-> at, as |-> "option"]>>,
                      !.inserted = Append(@, <<at, body, Flag>>)]
    /\ UNCHANGED MainStep

\* extract_backend_options returns (filtered, opts)
ExtractReturn ==
    /\ call.fn = "extract" /\ call.pc = "loop" /\ call.i >= Len(call.args)
    /\ call' = [call EXCEPT !.pc = "done"]
    /\ UNCHANGED MainStep

ExtractNext == ExtractKeep \/ ExtractOption \/ ExtractReturn

ExtractSpec == ExtractInit /\ [][ExtractNext]_vars

(* ------------------------- mdtest parameters ------------------------------- *)

\* fan-out and depth of the directory tree
MaxBranch == 3
MaxDepth == 3

RECURSIVE powi(_, _)
\* f64::powi on an integer base: the products are exact, every value of the
\* model being far below 2^53
powi(bf, n) == IF n <= 0 THEN 1 ELSE bf * powi(bf, n - 1)

num_dirs_in_tree_short(branch_factor, depth) ==
    IF depth <= 0 THEN 1
    ELSE IF branch_factor < 1 THEN 1
    ELSE IF branch_factor = 1 THEN depth + 1
    ELSE (powi(branch_factor, depth) - 1) \div (branch_factor - 1)

\* compute_derived: num_dirs_in_tree
num_dirs_in_tree(branch_factor, depth) ==
    IF depth <= 0 THEN 1
    ELSE IF branch_factor < 1 THEN 1
    ELSE IF branch_factor = 1 THEN depth + 1
    ELSE (powi(branch_factor, depth + 1) - 1) \div (branch_factor - 1)

\* compute_derived: the parameters with their derived fields
compute_derived(p) ==
    LET dirs == num_dirs_in_tree(p.branch_factor, p.depth)
        leaf_dirs == powi(p.branch_factor, p.depth)
        q == [p EXCEPT !.num_dirs_in_tree = dirs, !.directory_loops = 1]
    IN IF p.items_per_dir > 0
       THEN IF p.items = 0
            THEN IF p.leaf_only
                 THEN [q EXCEPT !.items = p.items_per_dir * leaf_dirs]
                 ELSE [q EXCEPT !.items = p.items_per_dir * dirs]
            ELSE [q EXCEPT !.num_dirs_in_tree_calc = dirs]
       ELSE IF p.items > 0
            THEN IF p.leaf_only
                 THEN IF p.branch_factor <= 1
                      THEN [q EXCEPT !.items_per_dir = p.items]
                      ELSE [q EXCEPT !.items_per_dir = p.items \div leaf_dirs,
                                     !.items = (p.items \div leaf_dirs) * leaf_dirs]
                 ELSE [q EXCEPT !.items_per_dir = p.items \div dirs,
                                !.items = (p.items \div dirs) * dirs]
            ELSE q

\* MdtestParam as the command line leaves it, derived fields at their default
MdtestArgs ==
    [branch_factor : 0..MaxBranch, depth : -1..MaxDepth, items : {0, 5, 100},
     items_per_dir : {0, 10}, leaf_only : BOOLEAN, num_dirs_in_tree : {0},
     num_dirs_in_tree_calc : {0}, directory_loops : {1}]

DerivedInit ==
    /\ \E p \in MdtestArgs :
          call = [pc |-> "ready", fn |-> "compute_derived", args |-> p, params |-> p]
    /\ OthersUnused
    /\ SyncUnused

\* MdtestParam::compute_derived
ComputeDerived ==
    /\ call.fn = "compute_derived" /\ call.pc = "ready"
    /\ call' = [call EXCEPT !.pc = "done", !.params = compute_derived(call.args)]
    /\ UNCHANGED MainStep

DerivedNext == ComputeDerived

DerivedSpec == DerivedInit /\ [][DerivedNext]_vars

(* ------------------------- mdtest tree -------------------------------------- *)

\* fan-out and depth of the trees that are built
MaxTreeBranch == 2
MaxTreeDepth == 2

\* a path is the sequence of the pieces it was formatted from: a piece is a
\* text followed by a number, and Slash is the separator
Piece(text, n) == [s |-> text, n |-> n]
Slash == Piece("/", 0)

\* BASE_TREE_NAME.n
TreeName(n) == Piece("mdtest_tree.", n)

\* params.test_dir
TestDir == <<Piece("out", 0)>>

RECURSIVE SplitSlash(_, _, _)
\* the components of a path from piece i on, cur being the component begun
SplitSlash(path, i, cur) ==
    LET ended == IF cur = <<>> THEN <<>> ELSE <<cur>>
    IN IF i > Len(path) THEN ended
       ELSE IF path[i] = Slash THEN ended \o SplitSlash(path, i + 1, <<>>)
       ELSE SplitSlash(path, i + 1, Append(cur, path[i]))

\* the file system's reading of a path: its non-empty components
Resolve(path) == SplitSlash(path, 1, <<>>)

Parent(rp) == SubSeq(rp, 1, Len(rp) - 1)

\* the file system with test_dir made
TreeFs == [dirs |-> {Resolve(TestDir)}, files |-> {}]

Exists(fs, path) == Resolve(path) \in fs.dirs \cup fs.files

\* mkdir, create or mknod, rmdir and delete on the file system, errors ignored
\* as the engine ignores them
FsCall(fs, op, path) ==
    LET rp == Resolve(path)
        there == rp \in fs.dirs \cup fs.files
        empty == \A q \in fs.dirs \cup fs.files : q = rp \/ Parent(q) # rp
    IN CASE op = "mkdir" ->
              IF ~there /\ Parent(rp) \in fs.dirs THEN [fs EXCEPT !.dirs = @ \cup {rp}] ELSE fs
         [] op = "create" ->
              IF rp \notin fs.dirs /\ Parent(rp) \in fs.dirs
              THEN [fs EXCEPT !.files = @ \cup {rp}] ELSE fs
         [] op = "rmdir" ->
              IF rp \in fs.dirs /\ empty THEN [fs EXCEPT !.dirs = @ \ {rp}] ELSE fs
         [] op = "delete" -> [fs EXCEPT !.files = @ \ {rp}]

RECURSIVE FsCalls(_, _, _, _)
\* the calls op(paths[i]), op(paths[i + 1]), ... in turn
FsCalls(fs, op, paths, i) ==
    IF i > Len(paths) THEN fs ELSE FsCalls(FsCall(fs, op, paths[i]), op, paths, i + 1)

RECURSIVE TreeDirs(_, _, _, _, _)
RECURSIVE TreeLoop(_, _, _, _, _, _)
\* create_remove_directory_tree: the directories in the order of the mkdir
\* calls (create) or of the rmdir calls
TreeDirs(create, curr_depth, base_path, dir_num, p) ==
    IF curr_depth = 0
    THEN LET dir == base_path \o <<Slash, TreeName(dir_num), Slash>>
             below == TreeDirs(create, 1, dir, dir_num + 1, p)
         IN IF create THEN <<dir>> \o below ELSE below \o <<dir>>
    ELSE IF curr_depth <= p.depth
    THEN TreeLoop(create, curr_depth, base_path, dir_num, 0, p)
    ELSE <<>>

\* create_remove_directory_tree: the turns k, k + 1, ... of its loop
TreeLoop(create, curr_depth, base_path, dir_num, k, p) ==
    IF k >= p.branch_factor THEN <<>>
    ELSE LET curr_dir == dir_num + k
             temp_path == base_path \o <<TreeName(curr_dir), Slash>>
             below == TreeDirs(create, curr_depth + 1, temp_path,
                               curr_dir * p.branch_factor + 1, p)
         IN (IF create THEN <<temp_path>> \o below ELSE below \o <<temp_path>>)
            \o TreeLoop(create, curr_depth, base_path, dir_num, k + 1, p)

\* "dir." or "file.", then the name "mdtest.<rank>." and the item number
ItemName(dirs, rank, n) ==
    <<Piece(IF dirs THEN "dir.mdtest." ELSE "file.mdtest.", rank), Piece(".", n)>>

\* create_remove_items_helper: the paths of the items of one directory
create_remove_items_helper(dirs, path, item_num, p) ==
    [i \in 1..p.items_per_dir |-> path \o ItemName(dirs, p.rank, item_num + i - 1)]

RECURSIVE create_remove_items(_, _, _, _, _)
RECURSIVE ItemsLoop(_, _, _, _, _, _)
\* create_remove_items: the paths of the items in the order of the calls
create_remove_items(curr_depth, dirs, path, dir_num, p) ==
    IF curr_depth = 0
    THEN (IF ~p.leaf_only \/ (p.depth = 0 /\ p.leaf_only)
          THEN create_remove_items_helper(dirs, path, 0, p) ELSE <<>>)
         \o (IF p.depth > 0 THEN create_remove_items(1, dirs, path, dir_num + 1, p)
             ELSE <<>>)
    ELSE IF curr_depth <= p.depth
    THEN ItemsLoop(curr_depth, dirs, path, dir_num, 0, p)
    ELSE <<>>

\* create_remove_items: the turns k, k + 1, ... of its loop
ItemsLoop(curr_depth, dirs, path, dir_num, k, p) ==
    IF k >= p.branch_factor THEN <<>>
    ELSE LET curr_dir == dir_num + k
             temp_path == path \o <<Slash, TreeName(curr_dir), Slash>>
         IN (IF ~p.leaf_only \/ (p.leaf_only /\ curr_depth = p.depth)
             THEN create_remove_items_helper(dirs, temp_path,
                                             curr_dir * p.items_per_dir, p)
             ELSE <<>>)
            \o create_remove_items(curr_depth + 1, dirs, temp_path,
                                   curr_dir * p.branch_factor + 1, p)
            \o ItemsLoop(curr_depth, dirs, path, dir_num, k + 1, p)

RECURSIVE WalkUp(_, _, _)
\* build_item_path: the directories above dir, prepended up to the root
WalkUp(dir, path, p) ==
    IF dir > p.branch_factor
    THEN LET up == (dir - 1) \div p.branch_factor
         IN WalkUp(up, <<TreeName(up), Slash>> \o path, p)
    ELSE path

\* build_item_path
build_item_path(base_path, item_name, item_num, p) ==
    IF p.items_per_dir = 0 THEN base_path \o <<Slash>> \o item_name
    ELSE LET parent_dir == item_num \div p.items_per_dir
         IN IF parent_dir = 0 THEN base_path \o <<Slash>> \o item_name
            ELSE base_path \o <<Slash>>
                 \o WalkUp(parent_dir, <<TreeName(parent_dir), Slash>> \o item_name, p)

\* mdtest_stat: the number it gives item i
adjusted_num(i, p) ==
    IF p.leaf_only
    THEN i + p.items_per_dir * (p.num_dirs_in_tree - powi(p.branch_factor, p.depth))
    ELSE i

\* mdtest_stat: the paths stat is called on, item by item
mdtest_stat(dirs, path, p) ==
    [j \in 1..p.items |->
        build_item_path(path, ItemName(dirs, p.rank, adjusted_num(j - 1, p)),
                        adjusted_num(j - 1, p), p)]

\* file_test, directory_test: test_dir "/" unique_mk_dir, which is
\* "mdtest_tree.<rank>" ".0"
full_path(p) == TestDir \o <<Slash, TreeName(p.rank), Piece(".", 0)>>

\* the parameters of a run of one rank: all phases, nstride 0, no stonewall
TreeArgs ==
    [branch_factor : 1..MaxTreeBranch, depth : 0..MaxTreeDepth, items : {0},
     items_per_dir : 0..2, leaf_only : BOOLEAN, num_dirs_in_tree : {0},
     num_dirs_in_tree_calc : {0}, directory_loops : {1}, dirs : BOOLEAN, rank : {0}]

TreeInit ==
    /\ \E a \in TreeArgs :
          call = [pc |-> "tree", fn |-> "mdtest", params |-> compute_derived(a),
                  fs |-> TreeFs, made |-> <<>>, found |-> <<>>, found_after |-> <<>>]
    /\ OthersUnused
    /\ SyncUnused

\* mdtest_iteration: TREE CREATION
MdTreeCreate ==
    /\ call.fn = "mdtest" /\ call.pc = "tree"
    /\ call' = [call EXCEPT !.pc = "create",
                   !.fs = FsCalls(@, "mkdir", TreeDirs(TRUE, 0, TestDir, 0, call.params), 1)]
    /\ UNCHANGED MainStep

\* file_test, directory_test: the create phase
MdCreate ==
    /\ call.fn = "mdtest" /\ call.pc = "create"
    /\ LET p == call.params
           paths == create_remove_items(0, p.dirs, full_path(p), 0, p)
       IN call' = [call EXCEPT !.pc = "stat", !.made = paths,
                      !.fs = FsCalls(@, IF p.dirs THEN "mkdir" ELSE "create", paths, 1)]
    /\ UNCHANGED MainStep

\* file_test, directory_test: the stat phase
MdStat ==
    /\ call.fn = "mdtest" /\ call.pc = "stat"
    /\ LET p == call.params
           paths == mdtest_stat(p.dirs, full_path(p), p)
       IN call' = [call EXCEPT !.pc = "remove",
                      !.found = [j \in 1..Len(paths) |-> Exists(call.fs, paths[j])]]
    /\ UNCHANGED MainStep

\* file_test, directory_test: the remove phase
MdRemove ==
    /\ call.fn = "mdtest" /\ call.pc = "remove"
    /\ LET p == call.params
           paths == create_remove_items(0, p.dirs, full_path(p), 0, p)
       IN call' = [call EXCEPT !.pc = "stat_after",
                      !.fs = FsCalls(@, IF p.dirs THEN "rmdir" ELSE "delete", paths, 1)]
    /\ UNCHANGED MainStep

\* the stat phase once more, on what the remove phase left
MdStatAfter ==
    /\ call.fn = "mdtest" /\ call.pc = "stat_after"
    /\ LET p == call.params
           paths == mdtest_stat(p.dirs, full_path(p), p)
       IN call' = [call EXCEPT !.pc = "tree_remove",
                      !.found_after = [j \in 1..Len(paths) |-> Exists(call.fs, paths[j])]]
    /\ UNCHANGED MainStep

\* mdtest_iteration: TREE REMOVAL
MdTreeRemove ==
    /\ call.fn = "mdtest" /\ call.pc = "tree_remove"
    /\ call' = [call EXCEPT !.pc = "done",
                   !.fs = FsCalls(FsCalls(@, "rmdir",
                                          TreeDirs(FALSE, 0, TestDir, 0, call.params), 1),
                                  "rmdir", <<TestDir>>, 1)]
    /\ UNCHANGED MainStep

TreeNext ==
    \/ MdTreeCreate \/ MdCreate \/ MdStat \/ MdRemove \/ MdStatAfter \/ MdTreeRemove

TreeSpec == TreeInit /\ [][TreeNext]_vars

(* ------------------- stonewall timer of mdtest ------------------------ *)

\* Phases of directory_test / file_test, one helper call per directory of
\* the tree (create_remove_items calls create_remove_items_helper once per
\* directory), one loop iteration of the helper per action.  The clock is
\* two monotone readings of now(): late_start is
\* (now() - start) > stone_wall_timer_seconds for the start of the create
\* phase, late_epoch is now() > stone_wall_timer_seconds, the same test
\* with stonewall_start = 0.0.  now() counts from the first call on the
\* thread, so start >= 0 and late_start implies late_epoch.
MaxItemsPerDir == 2
MaxTreeDirs == 2

StoneArgs ==
    [stone_wall_timer_seconds : {0, 5},
     items_per_dir : 1 .. MaxItemsPerDir,
     num_dirs : 1 .. MaxTreeDirs]

\* MdtestParam::compute_derived: items = items_per_dir * num_dirs_in_tree
StoneItems(p) == (0 .. p.num_dirs - 1) \X (0 .. p.items_per_dir - 1)

\* the readings of now() that can follow the readings (ls, le)
StoneClock(ls, le) ==
    {c \in Later(ls) \X Later(le) : c[1] => c[2]}

StoneInit ==
    /\ \E p \in StoneArgs, le \in BOOLEAN :
          call = [pc |-> "create", fn |-> "directory_test", params |-> p,
                  dir |-> 0, i |-> 0, count |-> 0,
                  late_start |-> FALSE, late_epoch |-> le,
                  created |-> {}, stated |-> {}, removed |-> {},
                  items |-> [create |-> 0, stat |-> 0, remove |-> 0]]
    /\ OthersUnused
    /\ SyncUnused

\* the stonewall check of create_remove_items_helper
StoneWalled(p, late) == p.stone_wall_timer_seconds > 0 /\ late


\* create_remove_items_helper, create: one iteration that makes an item
StoneCreateItem ==
    /\ call.fn = "directory_test" /\ call.pc = "create"
    /\ call.dir < call.params.num_dirs
    /\ \E c \in StoneClock(call.late_start, call.late_epoch) :
          /\ ~StoneWalled(call.params, c[1])
          /\ LET last == call.i + 1 = call.params.items_per_dir IN
             call' = [call EXCEPT
                 !.late_start = c[1], !.late_epoch = c[2],
                 !.created = @ \cup {<<call.dir, call.i>>},
                 !.i = IF last THEN 0 ELSE @ + 1,
                 !.dir = IF last THEN @ + 1 ELSE @,
                 !.count = IF last THEN @ + call.params.items_per_dir ELSE @]
    /\ UNCHANGED MainStep

\* create_remove_items_helper, create: the check fires, return i
StoneCreateStop ==
    /\ call.fn = "directory_test" /\ call.pc = "create"
    /\ call.dir < call.params.num_dirs
    /\ \E c \in StoneClock(call.late_start, call.late_epoch) :
          /\ StoneWalled(call.params, c[1])
          /\ call' = [call EXCEPT
                 !.late_start = c[1], !.late_epoch = c[2],
                 !.i = 0, !.dir = @ + 1, !.count = @ + call.i]
    /\ UNCHANGED MainStep

\* directory_test: end of the create phase, effective_items
StoneCreateEnd ==
    /\ call.fn = "directory_test" /\ call.pc = "create"
    /\ call.dir = call.params.num_dirs
    /\ LET p == call.params
           effective_items ==
               IF p.stone_wall_timer_seconds > 0 THEN call.count
               ELSE p.items_per_dir * p.num_dirs
       IN call' = [call EXCEPT !.pc = "stat", !.dir = 0, !.i = 0,
                               !.items.create = effective_items]
    /\ UNCHANGED MainStep

\* directory_test: the stat phase, mdtest_stat has no stonewall check
StoneStat ==
    /\ call.fn = "directory_test" /\ call.pc = "stat"
    /\ \E c \in StoneClock(call.late_start, call.late_epoch) :
          call' = [call EXCEPT
              !.pc = "remove",
              !.late_start = c[1], !.late_epoch = c[2],
              !.stated = StoneItems(call.params),
              !.items.stat = call.params.items_per_dir * call.params.num_dirs]
    /\ UNCHANGED MainStep

\* create_remove_items_helper, remove: one iteration that removes an item;
\* directory_test passes stonewall_start = 0.0
StoneRemoveItem ==
    /\ call.fn = "directory_test" /\ call.pc = "remove"
    /\ call.dir < call.params.num_dirs
    /\ \E c \in StoneClock(call.late_start, call.late_epoch) :
          /\ ~StoneWalled(call.params, c[2])
          /\ LET last == call.i + 1 = call.params.items_per_dir IN
             call' = [call EXCEPT
                 !.late_start = c[1], !.late_epoch = c[2],
                 !.removed = @ \cup {<<call.dir, call.i>>},
                 !.i = IF last THEN 0 ELSE @ + 1,
                 !.dir = IF last THEN @ + 1 ELSE @]
    /\ UNCHANGED MainStep

\* create_remove_items_helper, remove: the check fires, return i
StoneRemoveStop ==
    /\ call.fn = "directory_test" /\ call.pc = "remove"
    /\ call.dir < call.params.num_dirs
    /\ \E c \in StoneClock(call.late_start, call.late_epoch) :
          /\ StoneWalled(call.params, c[2])
          /\ call' = [call EXCEPT
                 !.late_start = c[1], !.late_epoch = c[2],
                 !.i = 0, !.dir = @ + 1]
    /\ UNCHANGED MainStep

\* directory_test: end of the remove phase
StoneRemoveEnd ==
    /\ call.fn = "directory_test" /\ call.pc = "remove"
    /\ call.dir = call.params.num_dirs
    /\ call' = [call EXCEPT
           !.pc = "done",
           !.items.remove = call.params.items_per_dir * call.params.num_dirs]
    /\ UNCHANGED MainStep

StoneNext ==
    \/ StoneCreateItem
    \/ StoneCreateStop
    \/ StoneCreateEnd
    \/ StoneStat
    \/ StoneRemoveItem
    \/ StoneRemoveStop
    \/ StoneRemoveEnd

StoneSpec == StoneInit /\ [][StoneNext]_vars

(* ------------------- mdtest with nstride ------------------------------ *)

\* ranks of the metadata engine and values of nstride
MaxMdRanks == 3
MaxStride == 2

\* mdtest_iteration, SETUP NAMES: the parameters with the rank that names
\* the items of phase k, (rank + k * nstride).rem_euclid(ntasks)
Named(p, k) == [p EXCEPT !.rank = (p.rank + k * p.nstride) % p.ntasks]

\* the parameters all ranks share: nstride not a multiple of ntasks,
\* barriers on, every phase enabled
StrideArgs ==
    {a \in [branch_factor : 1..2, depth : 0..1, items : {0},
            items_per_dir : {1}, leaf_only : {FALSE}, num_dirs_in_tree : {0},
            num_dirs_in_tree_calc : {0}, directory_loops : {1}, dirs : BOOLEAN,
            rank : {0}, ntasks : 2..MaxMdRanks, nstride : 1..MaxStride] :
        a.nstride % a.ntasks # 0}

StrideRanks == 0 .. call.params.ntasks - 1

\* the parameters as rank r holds them
OfRank(r) == [call.params EXCEPT !.rank = r]

StrideStages == <<"tree", "create", "stat", "read", "remove", "done">>

StrideInit ==
    /\ \E a \in StrideArgs :
          call = [fn |-> "mdtest_iteration", params |-> compute_derived(a),
                  at |-> [r \in 0 .. a.ntasks - 1 |-> 1],
                  fs |-> TreeFs,
                  made |-> [r \in 0 .. a.ntasks - 1 |-> <<>>],
                  stated |-> [r \in 0 .. a.ntasks - 1 |-> <<>>],
                  was_read |-> [r \in 0 .. a.ntasks - 1 |-> <<>>],
                  removed |-> [r \in 0 .. a.ntasks - 1 |-> <<>>],
                  found |-> [r \in 0 .. a.ntasks - 1 |-> <<>>]]
    /\ OthersUnused
    /\ SyncUnused

\* comm.barrier(): rank r enters stage n once every rank has left stage n - 2
StrideAt(r, stage) ==
    /\ call.fn = "mdtest_iteration"
    /\ r \in StrideRanks
    /\ StrideStages[call.at[r]] = stage
    /\ \A q \in StrideRanks : call.at[q] >= call.at[r]

\* mdtest_iteration: TREE CREATION, by rank 0
StrideTree(r) ==
    /\ StrideAt(r, "tree")
    /\ call' = [call EXCEPT
           !.at[r] = @ + 1,
           !.fs = IF r = 0
                  THEN FsCalls(@, "mkdir", TreeDirs(TRUE, 0, TestDir, 0, OfRank(r)), 1)
                  ELSE @]
    /\ UNCHANGED MainStep

\* file_test, directory_test: the create phase with mk_name
StrideCreate(r) ==
    /\ StrideAt(r, "create")
    /\ LET p == OfRank(r)
           paths == create_remove_items(0, p.dirs, full_path(p), 0, Named(p, 0))
       IN call' = [call EXCEPT
              !.at[r] = @ + 1,
              !.made[r] = paths,
              !.fs = FsCalls(@, IF p.dirs THEN "mkdir" ELSE "create", paths, 1)]
    /\ UNCHANGED MainStep

\* file_test, directory_test: the stat phase with stat_name
StrideStat(r) ==
    /\ StrideAt(r, "stat")
    /\ LET p == OfRank(r)
           paths == mdtest_stat(p.dirs, full_path(p), Named(p, 1))
       IN call' = [call EXCEPT
              !.at[r] = @ + 1,
              !.stated[r] = paths,
              !.found[r] = [j \in 1..Len(paths) |-> Exists(call.fs, paths[j])]]
    /\ UNCHANGED MainStep

\* file_test: the read phase with read_name (nothing is read of directories)
StrideRead(r) ==
    /\ StrideAt(r, "read")
    /\ LET p == OfRank(r)
           paths == IF p.dirs THEN <<>>
                    ELSE mdtest_stat(FALSE, full_path(p), Named(p, 2))
       IN call' = [call EXCEPT !.at[r] = @ + 1, !.was_read[r] = paths]
    /\ UNCHANGED MainStep

\* file_test, directory_test: the remove phase with rm_name
StrideRemove(r) ==
    /\ StrideAt(r, "remove")
    /\ LET p == OfRank(r)
           paths == create_remove_items(0, p.dirs, full_path(p), 0, Named(p, 3))
       IN call' = [call EXCEPT
              !.at[r] = @ + 1,
              !.removed[r] = paths,
              !.fs = FsCalls(@, IF p.dirs THEN "rmdir" ELSE "delete", paths, 1)]
    /\ UNCHANGED MainStep

StrideNext ==
    \E r \in 0 .. MaxMdRanks - 1 :
        \/ StrideTree(r)
        \/ StrideCreate(r)
        \/ StrideStat(r)
        \/ StrideRead(r)
        \/ StrideRemove(r)

StrideSpec == StrideInit /\ [][StrideNext]_vars

(* ------------------- stonewall of the async path on several ranks ----- *)

\* write_or_read_async on the ranks of a shared file: every rank runs the
\* loop on its own counters and its own clock.  due[r] is the reading
\* (now() - start) > deadline_for_stonewalling of rank r, monotone.
AsyncRanks == 0 .. MaxTasks - 1

AsyncStoneArgs ==
    [queue_depth : 1..MaxQueueDepth, offsets_per_block : 1..MaxOffsets,
     segment_count : 2..MaxSegments, deadline_for_stonewalling : {0, 1},
     file_per_proc : {FALSE}]

AsyncStoneInit ==
    /\ \E p \in AsyncStoneArgs :
          call = [fn |-> "write_or_read_async", params |-> p,
                  total_xfers |-> p.offsets_per_block * p.segment_count,
                  at |-> [r \in AsyncRanks |-> "fill"],
                  submitted |-> [r \in AsyncRanks |-> 0],
                  in_flight |-> [r \in AsyncRanks |-> 0],
                  due |-> [r \in AsyncRanks |-> FALSE]]
    /\ OthersUnused
    /\ SyncUnused

AsyncAt(r, where) ==
    /\ call.fn = "write_or_read_async"
    /\ call.at[r] = where

\* the condition of the submit burst
AsyncRoom(r) ==
    /\ call.in_flight[r] < call.params.queue_depth
    /\ call.submitted[r] < call.total_xfers

\* submit burst: the stonewall check passes and one transfer is submitted
AsyncStoneSubmit(r) ==
    /\ AsyncAt(r, "fill") /\ AsyncRoom(r)
    /\ \E late \in Later(call.due[r]) :
          /\ ~(call.params.deadline_for_stonewalling > 0 /\ late)
          /\ call' = [call EXCEPT !.due[r] = late,
                                  !.submitted[r] = @ + 1,
                                  !.in_flight[r] = @ + 1]
    /\ UNCHANGED MainStep

\* submit burst: the stonewall check breaks out of the burst
AsyncStoneBreak(r) ==
    /\ AsyncAt(r, "fill") /\ AsyncRoom(r)
    /\ \E late \in Later(call.due[r]) :
          /\ call.params.deadline_for_stonewalling > 0 /\ late
          /\ call' = [call EXCEPT !.due[r] = late, !.at[r] = "poll"]
    /\ UNCHANGED MainStep

\* submit burst: the pipeline is full or everything is submitted
AsyncStoneFull(r) ==
    /\ AsyncAt(r, "fill") /\ ~AsyncRoom(r)
    /\ call' = [call EXCEPT !.at[r] = "poll"]
    /\ UNCHANGED MainStep

\* no more work and nothing in flight
AsyncStoneIdle(r) ==
    /\ AsyncAt(r, "poll") /\ call.in_flight[r] = 0
    /\ call' = [call EXCEPT !.at[r] = "done"]
    /\ UNCHANGED MainStep

\* backend.poll without an error, delta completions; min_time_duration is 0
AsyncStonePoll(r) ==
    /\ AsyncAt(r, "poll") /\ call.in_flight[r] > 0
    /\ \E delta \in 0 .. call.in_flight[r] :
          LET left == call.in_flight[r] - delta
              over == call.submitted[r] >= call.total_xfers /\ left = 0
          IN call' = [call EXCEPT !.in_flight[r] = left,
                                  !.at[r] = IF over THEN "done" ELSE "fill"]
    /\ UNCHANGED MainStep

AsyncStoneNext ==
    \E r \in AsyncRanks :
        \/ AsyncStoneSubmit(r)
        \/ AsyncStoneBreak(r)
        \/ AsyncStoneFull(r)
        \/ AsyncStoneIdle(r)
        \/ AsyncStonePoll(r)

AsyncStoneSpec == AsyncStoneInit /\ [][AsyncStoneNext]_vars

(* ------------------- collectives of the sync loop --------------------- *)

\* the runs of the transfer loop on a shared file with a stonewall deadline
\* on several ranks, with and without a minimum duration; every rank reads
\* its own clock
BcastRuns ==
    {p \in EngineParams :
        /\ p.num_tasks = MaxTasks
        /\ ~p.file_per_proc
        /\ p.deadline_for_stonewalling > 0
        /\ ~p.random_offset /\ p.random_seed = -1}

BcastInit ==
    /\ sparams \in BcastRuns
    /\ SyncStart
    /\ OthersUnused
    /\ CallUnused

BcastSpec == BcastInit /\ [][EngineNext]_vars

(* ------------------- file handles over the repetitions ---------------- *)

\* run_benchmark on every rank, stage by stage: the deletes, creates, opens
\* and closes of the test files and the collectives between them.  A stage
\* of a phase that is switched off is passed without effect.
RunStages ==
    <<"w_remove", "w_barrier", "w_create", "w_close", "w_barrier2", "w_report",
      "r_barrier", "r_open", "r_close", "r_report",
      "c_barrier", "c_remove", "c_barrier2">>

\* the runs with a phase that touches the test files
RunParams ==
    {p \in [write_file : BOOLEAN, read_file : BOOLEAN, keep_file : BOOLEAN,
            use_existing_test_file : BOOLEAN, file_per_proc : BOOLEAN,
            reorder_tasks : BOOLEAN, task_per_node_offset : {1},
            num_tasks : 1..MaxTasks, repetitions : 1..MaxRepetitions] :
        /\ p.write_file \/ p.read_file
        /\ p.reorder_tasks => p.read_file}

RunRanks == 0 .. call.params.num_tasks - 1

RunInit ==
    /\ \E p \in RunParams, exist \in BOOLEAN :
          call = [fn |-> "run_benchmark", params |-> p,
                  at |-> [r \in 0..(p.num_tasks - 1) |-> 1],
                  rep |-> [r \in 0..(p.num_tasks - 1) |-> 0],
                  failed |-> [r \in 0..(p.num_tasks - 1) |-> FALSE],
                  held |-> [r \in 0..(p.num_tasks - 1) |-> {}],
                  exist |-> IF exist THEN RepFiles(p) ELSE {},
                  deleted |-> {}]
    /\ OthersUnused
    /\ SyncUnused

\* how far rank r has come
RunPos(r) == Len(RunStages) * call.rep[r] + call.at[r]

\* rank r is at the stage, in a run that goes on
RunAt(r, stage) ==
    /\ call.fn = "run_benchmark"
    /\ r \in RunRanks
    /\ ~call.failed[r]
    /\ call.rep[r] < call.params.repetitions
    /\ RunStages[call.at[r]] = stage

\* the stage after the one rank r is at: the next one, or the first one of
\* the next repetition
RunStep(c, r) ==
    IF c.at[r] < Len(RunStages) THEN [c EXCEPT !.at[r] = @ + 1]
    ELSE [c EXCEPT !.at[r] = 1, !.rep[r] = @ + 1]

\* a collective every rank leaves alone
ArrivedNever(r) == TRUE

\* comm.barrier and comm.all_reduce_into: no rank leaves before every rank
\* has entered
Arrived(r) == \A q \in RunRanks : RunPos(q) >= RunPos(r)

RunStageIndex(stage) == CHOOSE i \in 1..Len(RunStages) : RunStages[i] = stage

\* how far a rank is that has made the last close of repetition k
RunClosed(p, k) ==
    Len(RunStages) * k + RunStageIndex(IF p.read_file THEN "r_close" ELSE "w_close") + 1

\* backend.delete of the files, noted with its caller, the handles open on
\* the file at that moment, the ranks that have yet to close a file of the
\* repetition (of the one before, for the delete before the write phase) and
\* the ranks that have already created a file of the repetition
RunDelete(c, r, fs, kind) ==
    LET pos(q) == Len(RunStages) * c.rep[q] + c.at[q]
        k == IF kind = "before" THEN c.rep[r] - 1 ELSE c.rep[r]
    IN [c EXCEPT !.exist = @ \ fs,
                 !.deleted = @ \cup
                     {[file |-> f, by |-> r, rep |-> c.rep[r], kind |-> kind,
                       was |-> f \in c.exist,
                       holders |-> {q \in DOMAIN c.held : f \in c.held[q]},
                       behind |-> {q \in DOMAIN c.at : pos(q) < RunClosed(c.params, k)},
                       ahead |-> {q \in DOMAIN c.at :
                                     /\ kind = "before"
                                     /\ pos(q) > Len(RunStages) * c.rep[r]
                                                 + RunStageIndex("w_create")}] : f \in fs}]

\* the rank offset of the read phase
ReadOffset(p) == IF p.reorder_tasks THEN p.task_per_node_offset % p.num_tasks ELSE 0

\* write phase: remove_file unless an existing file is to be used
RunRemove(r) ==
    /\ RunAt(r, "w_remove")
    /\ LET p == call.params
       IN call' = RunStep(IF p.write_file /\ ~p.use_existing_test_file
                          THEN RunDelete(call, r, remove_file(p, r, 0), "before")
                          ELSE call, r)
    /\ UNCHANGED MainStep

\* the barriers of the write phase, the read phase and the cleanup
RunBarrier(r) ==
    /\ \E stage \in {"w_barrier", "w_barrier2", "r_barrier", "c_barrier", "c_barrier2"} :
          /\ RunAt(r, stage)
          /\ LET p == call.params
                 on == CASE stage \in {"w_barrier", "w_barrier2"} -> p.write_file
                         [] stage = "r_barrier" -> p.read_file
                         [] OTHER -> ~p.keep_file
             IN on => Arrived(r)
    /\ call' = RunStep(call, r)
    /\ UNCHANGED MainStep

\* write phase: backend.create
RunCreate(r) ==
    /\ RunAt(r, "w_create")
    /\ LET p == call.params
           f == get_test_file_name(p, r, 0)
       IN call' = RunStep(IF p.write_file
                          THEN [call EXCEPT !.held[r] = @ \cup {f}, !.exist = @ \cup {f}]
                          ELSE call, r)
    /\ UNCHANGED MainStep

\* read phase: backend.open of the file of the reordered rank; the run of
\* the rank ends with the error if the file is not there
RunOpen(r) ==
    /\ RunAt(r, "r_open")
    /\ LET p == call.params
           f == get_test_file_name(p, r, ReadOffset(p))
       IN IF ~p.read_file THEN call' = RunStep(call, r)
          ELSE IF f \in call.exist
               THEN call' = RunStep([call EXCEPT !.held[r] = @ \cup {f}], r)
               ELSE call' = [call EXCEPT !.failed[r] = TRUE]
    /\ UNCHANGED MainStep

\* write phase, read phase: the transfers and backend.close
RunClose(r) ==
    /\ RunAt(r, "w_close") \/ RunAt(r, "r_close")
    /\ call' = RunStep([call EXCEPT !.held[r] = {}], r)
    /\ UNCHANGED MainStep

\* reduce_and_report: reduce_timers, then the all_reduce of
\* reduce_data_moved
RunReport(r) ==
    /\ \/ RunAt(r, "w_report") /\ (call.params.write_file => Arrived(r))
       \/ RunAt(r, "r_report") /\ (call.params.read_file => Arrived(r))
    /\ call' = RunStep(call, r)
    /\ UNCHANGED MainStep

\* CLEANUP: remove_file unless keep_file is set
RunCleanup(r) ==
    /\ RunAt(r, "c_remove")
    /\ LET p == call.params
       IN call' = RunStep(IF ~p.keep_file
                          THEN RunDelete(call, r, remove_file(p, r, 0), "cleanup")
                          ELSE call, r)
    /\ UNCHANGED MainStep

RunNext ==
    \E r \in 0 .. MaxTasks - 1 :
        \/ RunRemove(r)
        \/ RunBarrier(r)
        \/ RunCreate(r)
        \/ RunOpen(r)
        \/ RunClose(r)
        \/ RunReport(r)
        \/ RunCleanup(r)

RunSpec == RunInit /\ [][RunNext]_vars

(* ------------------- the pool that is never dropped -------------------- *)

\* the pool and its client without Drop: shutdown stays false
LiveNext ==
    \/ ClientSubmit
    \/ ClientNotify
    \/ \E max_completions \in 0..MaxQueueDepth : ClientPoll(max_completions)
    \/ \E token \in 0..MaxXfers : ClientCancel(token)
    \/ \E w \in Workers : WorkerNext(w)
    \/ \E w \in Workers : WorkerExecute(w)
    \/ \E w \in Workers : SpuriousWake(w)

\* the worker threads keep running, every pread/pwrite returns, and a
\* submit that has pushed its op goes on to notify_one; a wait is not
\* bound to wake without a notification, and the client is free to stop
\* calling
LiveFairness ==
    /\ WF_vars(ClientNotify)
    /\ \A w \in 1..MaxQueueDepth : WF_vars(w \in Workers /\ WorkerNext(w))
    /\ \A w \in 1..MaxQueueDepth : WF_vars(w \in Workers /\ WorkerExecute(w))

LiveSpec == PoolInit /\ [][LiveNext]_vars /\ LiveFairness

(* ------------------- the offsets of one pass, both paths --------------- *)

\* the parameters of a pass without stonewall, and the rank and rank
\* offset of the caller
OffsetArgs ==
    {a \in [p : EngineParams, rank : 0..(MaxTasks - 1), rank_offset : 0..(MaxTasks - 1)] :
        /\ a.rank < a.p.num_tasks /\ a.rank_offset < a.p.num_tasks
        /\ a.p.deadline_for_stonewalling = 0 /\ a.p.min_time_duration = 0
        /\ ~a.p.random_offset => a.p.random_seed = -1}

RECURSIVE SyncPassFrom(_, _, _, _, _)
\* write_or_read: the offsets of the transfers from transfer j of segment
\* seg on, in the order of the two loops
SyncPassFrom(p, pr, random_offsets, seg, j) ==
    IF seg >= p.segment_count THEN <<>>
    ELSE IF j >= NumOffsets(p, random_offsets)
    THEN SyncPassFrom(p, pr, random_offsets, seg + 1, 0)
    ELSE <<XferOffset(p, pr, random_offsets, seg, j)>>
         \o SyncPassFrom(p, pr, random_offsets, seg, j + 1)

RECURSIVE AsyncPassFrom(_, _, _, _)
\* write_or_read_async: calc_offset(xfer_idx) for xfer_idx, xfer_idx + 1,
\* ... below total_xfers
AsyncPassFrom(p, pr, random_offsets, xfer_idx) ==
    IF xfer_idx >= AsyncTotalXfers(p, random_offsets) THEN <<>>
    ELSE <<calc_offset(p, pr, random_offsets, xfer_idx)>>
         \o AsyncPassFrom(p, pr, random_offsets, xfer_idx + 1)

OffsetsInit ==
    /\ \E a \in OffsetArgs :
          call = [pc |-> "ready", fn |-> "offsets", args |-> a,
                  sync |-> <<>>, async |-> <<>>, ran |-> {}]
    /\ OthersUnused
    /\ SyncUnused

\* write_or_read: one pass
OffsetsSync ==
    /\ call.fn = "offsets" /\ "sync" \notin call.ran
    /\ LET a == call.args
           pr == pretend_rank(a.p, a.rank, a.rank_offset)
       IN call' = [call EXCEPT !.ran = @ \cup {"sync"},
                      !.sync = SyncPassFrom(a.p, pr, RandomOffsets(a.p, pr), 0, 0)]
    /\ UNCHANGED MainStep

\* write_or_read_async: one pass
OffsetsAsync ==
    /\ call.fn = "offsets" /\ "async" \notin call.ran
    /\ LET a == call.args
           pr == pretend_rank(a.p, a.rank, a.rank_offset)
       IN call' = [call EXCEPT !.ran = @ \cup {"async"},
                      !.async = AsyncPassFrom(a.p, pr, RandomOffsets(a.p, pr), 0)]
    /\ UNCHANGED MainStep

OffsetsNext == OffsetsSync \/ OffsetsAsync

OffsetsSpec == OffsetsInit /\ [][OffsetsNext]_vars

(* ------------------- handles of a benchmark phase ---------------------- *)

\* run_benchmark on one rank, seen from the backend: the phases of one
\* repetition, each with its create or open, its transfers, its fsync and
\* its close.  Every backend call may fail, and the engine returns the
\* error at once (the ? operator).  closes counts the calls of
\* backend.close per phase.
HandlePhases == <<"write", "writecheck", "read">>

HandleArgs ==
    [write_file : BOOLEAN, check_write : BOOLEAN, read_file : BOOLEAN,
     fsync : BOOLEAN, xfers : 1..MaxXfers]

\* the phase is switched on
PhaseOn(p, phase) ==
    CASE phase = "write" -> p.write_file
      [] phase = "writecheck" -> p.write_file /\ p.check_write
      [] phase = "read" -> p.read_file

HandleInit ==
    /\ \E p \in HandleArgs :
          call = [pc |-> "open", fn |-> "phases", params |-> p, ph |-> 1, i |-> 0,
                  opened |-> [n \in 1..Len(HandlePhases) |-> FALSE],
                  closes |-> [n \in 1..Len(HandlePhases) |-> 0],
                  ret |-> "none"]
    /\ OthersUnused
    /\ SyncUnused

HandleAt(where) ==
    /\ call.fn = "phases" /\ call.pc = where
    /\ call.ph <= Len(HandlePhases)

\* what a backend call returns
BackendOutcomes == {"Ok", "Err"}

\* a phase that is switched off is passed over
HandleSkip ==
    /\ HandleAt("open")
    /\ ~PhaseOn(call.params, HandlePhases[call.ph])
    /\ call' = [call EXCEPT !.ph = @ + 1]
    /\ UNCHANGED MainStep

\* backend.create(&path, open_flags)? or backend.open(&path, open_flags)?
HandleOpen ==
    /\ HandleAt("open")
    /\ PhaseOn(call.params, HandlePhases[call.ph])
    /\ \E out \in BackendOutcomes :
          call' = IF out = "Ok"
                  THEN [call EXCEPT !.opened[call.ph] = TRUE, !.pc = "xfer", !.i = 0]
                  ELSE [call EXCEPT !.pc = "returned", !.ret = "Err"]
    /\ UNCHANGED MainStep

\* write_or_read(..)?, write_or_read_verify: backend.xfer_sync(..)? of the
\* next transfer; after the last one the fsync of the write phase, or the
\* close
HandleXfer ==
    /\ HandleAt("xfer")
    /\ \E out \in BackendOutcomes :
          LET last == call.i + 1 >= call.params.xfers
              syncs == HandlePhases[call.ph] = "write" /\ call.params.fsync
          IN call' = IF out = "Ok"
                     THEN [call EXCEPT !.i = @ + 1,
                                       !.pc = IF ~last THEN "xfer"
                                              ELSE IF syncs THEN "fsync" ELSE "close"]
                     ELSE [call EXCEPT !.pc = "returned", !.ret = "Err"]
    /\ UNCHANGED MainStep

\* if params.fsync { backend.fsync(&handle)?; }
HandleFsync ==
    /\ HandleAt("fsync")
    /\ \E out \in BackendOutcomes :
          call' = IF out = "Ok" THEN [call EXCEPT !.pc = "close"]
                  ELSE [call EXCEPT !.pc = "returned", !.ret = "Err"]
    /\ UNCHANGED MainStep

\* backend.close(handle)?
HandleClose ==
    /\ HandleAt("close")
    /\ \E out \in BackendOutcomes :
          call' = IF out = "Ok"
                  THEN [call EXCEPT !.closes[call.ph] = @ + 1, !.pc = "open", !.ph = @ + 1]
                  ELSE [call EXCEPT !.closes[call.ph] = @ + 1,
                                    !.pc = "returned", !.ret = "Err"]
    /\ UNCHANGED MainStep

\* Ok(BenchmarkResults { .. })
HandleReturn ==
    /\ call.fn = "phases" /\ call.pc = "open"
    /\ call.ph > Len(HandlePhases)
    /\ call' = [call EXCEPT !.pc = "returned", !.ret = "Ok"]
    /\ UNCHANGED MainStep

HandleNext ==
    \/ HandleSkip
    \/ HandleOpen
    \/ HandleXfer
    \/ HandleFsync
    \/ HandleClose
    \/ HandleReturn

HandleSpec == HandleInit /\ [][HandleNext]_vars

(* ------------------- the default xfer_sync ----------------------------- *)

\* Aiori::xfer_sync as the trait defines it, over a backend that executes
\* the submitted transfer on its own: calls of xfer_sync one after the
\* other, as the engines make them.  transfer is where the transfer of the
\* call is: not submitted, pending, completed by the backend, or dispatched
\* to sync_callback.
XferSyncArgs ==
    [len : 1..MaxXfers, calls : 1..MaxCalls, poll_can_fail : BOOLEAN]

\* what the backend makes of a transfer of len bytes: all of it, a part of
\* it, or an error, reported with bytes_transferred -1
Completions(len) ==
    {[bytes_transferred |-> b, error |-> 0] : b \in 0..len}
    \cup {[bytes_transferred |-> -1, error |-> EIO]}

NoCompletion == [bytes_transferred |-> 0, error |-> 0]

XferSyncInit ==
    /\ \E a \in XferSyncArgs :
          call = [pc |-> "submit", fn |-> "xfer_sync", args |-> a, n |-> 1,
                  result_bytes |-> -1, transfer |-> "none",
                  completion |-> NoCompletion, ret |-> NoResult]
    /\ OthersUnused
    /\ SyncUnused

\* let mut result_bytes = -1; self.xfer_submit(..)?
XferSyncSubmit ==
    /\ call.fn = "xfer_sync" /\ call.pc = "submit"
    /\ \E out \in BackendOutcomes :
          call' = IF out = "Ok"
                  THEN [call EXCEPT !.pc = "poll", !.transfer = "pending"]
                  ELSE [call EXCEPT !.pc = "returned", !.ret = [kind |-> "Err", val |-> EIO]]
    /\ UNCHANGED MainStep

\* the backend executes the transfer and queues its completion
XferSyncComplete ==
    /\ call.fn = "xfer_sync" /\ call.transfer = "pending"
    /\ \E c \in Completions(call.args.len) :
          call' = [call EXCEPT !.transfer = "completed", !.completion = c]
    /\ UNCHANGED MainStep

\* sync_callback: *ptr = res.bytes_transferred
sync_callback(res) == res.bytes_transferred


\* one round of the loop: self.poll(1)?, which dispatches the completion if
\* it is there, then if result_bytes >= 0 { return Ok(result_bytes) }
XferSyncPoll ==
    /\ call.fn = "xfer_sync" /\ call.pc = "poll"
    /\ \E out \in (IF call.args.poll_can_fail THEN BackendOutcomes ELSE {"Ok"}) :
          IF out = "Err"
          THEN call' = [call EXCEPT !.pc = "returned",
                                    !.ret = [kind |-> "Err", val |-> EIO]]
          ELSE LET fires == call.transfer = "completed"
                   bytes == IF fires THEN sync_callback(call.completion)
                            ELSE call.result_bytes
               IN call' = [call EXCEPT
                      !.transfer = IF fires THEN "dispatched" ELSE @,
                      !.result_bytes = bytes,
                      !.pc = IF bytes >= 0 THEN "returned" ELSE "poll",
                      !.ret = IF bytes >= 0 THEN [kind |-> "Ok", val |-> bytes] ELSE @]
    /\ UNCHANGED MainStep

\* the next call, after one that returned Ok
XferSyncAgain ==
    /\ call.fn = "xfer_sync" /\ call.pc = "returned"
    /\ call.ret.kind = "Ok" /\ call.n < call.args.calls
    /\ call' = [call EXCEPT !.pc = "submit", !.n = @ + 1, !.result_bytes = -1,
                            !.transfer = "none", !.completion = NoCompletion,
                            !.ret = NoResult]
    /\ UNCHANGED MainStep

XferSyncNext ==
    \/ XferSyncSubmit
    \/ XferSyncComplete
    \/ XferSyncPoll
    \/ XferSyncAgain

XferSyncSpec == XferSyncInit /\ [][XferSyncNext]_vars

(* ------------------- fair run of the pipeline ------------------------- *)

\* a backend that completes every transfer with full length, no stonewall
\* deadline, no minimum duration
ReliableInit ==
    /\ Init
    /\ faults = "none"
    /\ params.deadline_for_stonewalling = 0
    /\ params.min_time_duration = 0

\* the main thread and the worker threads keep running, and every pread/pwrite
\* returns; a spurious wakeup may never happen
Fairness ==
    /\ WF_vars(Submit) /\ WF_vars(SubmitNotify) /\ WF_vars(ReturnIdle) /\ WF_vars(Poll)
    /\ \A w \in 1..MaxQueueDepth : WF_vars(w \in Workers /\ WorkerNext(w))
    /\ \A w \in 1..MaxQueueDepth : WF_vars(w \in Workers /\ WorkerExecute(w))

FairSpec == ReliableInit /\ [][Next]_vars /\ Fairness

(* --------------------- claims on the pipeline ------------------------- *)

\* ops the backend still holds: queued, or being executed by a worker
PendingOps == {pool_pending[i] : i \in 1..Len(pool_pending)}
ExecutingOps == {workers[w].op : w \in {v \in Workers : workers[v].st = "exec"}}

\* transfers submitted whose completion callback has not fired
Outstanding ==
    Len(pool_pending) + Cardinality({w \in Workers : workers[w].st = "exec"})
    + Len(pool_completed)

\* C1: in every reachable state in_flight lies between 0 and queue_depth, and it
\* is the number of transfers submitted whose completion has not been counted
\* (one more is queued while xfer_submit is still returning)
C1_InFlightBounded ==
    /\ in_flight >= 0
    /\ in_flight <= params.queue_depth
    /\ Outstanding = in_flight + (IF pc = "notify" THEN 1 ELSE 0)

\* C1 witness: the pipeline is full and a later transfer completed before an
\* earlier one that a worker is still executing
C1_Witness ==
    /\ in_flight = params.queue_depth
    /\ pool_completed # <<>>
    /\ \E w \in Workers : /\ workers[w].st = "exec"
                          /\ workers[w].op.token < Head(pool_completed).token

\* C2: on a reliable backend with no deadline and no minimum duration the call
\* eventually returns Ok with in_flight = 0, total_xfers completions counted and
\* total_bytes = total_xfers * transfer_size
C2_ReturnsOk ==
    <>(/\ pc = "done"
       /\ result = [kind |-> "Ok", val |-> params.total_xfers * params.transfer_size]
       /\ in_flight = 0
       /\ state.completed_count = params.total_xfers
       /\ state.total_bytes = params.total_xfers * params.transfer_size)

\* C2 witness: the call returned Ok after the largest transfer set
C2_Witness ==
    /\ pc = "done" /\ result.kind = "Ok"
    /\ params.total_xfers = MaxXfers
    /\ state.completed_count = MaxXfers

\* C3 as stated: whenever the call returns Ok, submitted = completed
C3_SubmittedEqCompleted ==
    (pc = "done" /\ result.kind = "Ok") => submitted = completed

\* C3 amended: whenever the call returns Ok, in_flight = 0 and completed equals
\* submitted plus total_xfers for every restart (submitted counts the current
\* pass only, completed counts all passes)
C3_Conservation ==
    (pc = "done" /\ result.kind = "Ok") =>
        /\ in_flight = 0
        /\ completed = submitted + restarts * params.total_xfers

\* C3 witness: Ok after a restart, on a pass cut short by the stonewall deadline
C3_Witness ==
    /\ pc = "done" /\ result.kind = "Ok"
    /\ restarts > 0
    /\ 0 < submitted /\ submitted < params.total_xfers

\* C4: no two transfers that the backend still holds (queued or executing) use
\* the same buffer
C4_BufferExclusive ==
    \A a, b \in PendingOps \cup ExecutingOps : a.buf = b.buf => a = b

\* C5: once the call has returned, with Ok or Err, no transfer it submitted is
\* still queued or executing
C5_NothingLeftOnReturn ==
    pc = "done" => (PendingOps \cup ExecutingOps = {})

\* C6: an Err return carries the error of the first erroring completion dispatched
C6_FirstErrorReturned ==
    (pc = "done" /\ result.kind = "Err") => result.val = first_error


(* --------------------------- claims on the pool --------------------------- *)

CancelledTokens == {cb_log[i].token : i \in {j \in 1..Len(cb_log) : cb_log[j].error = ECANCELED}}

TokensOf(ops) == {op.token : op \in ops}

IsCancelStep == last_call'.op = "cancel" /\ (last_call' # last_call \/ cb_log' # cb_log)

\* C8: cancel(token) succeeds exactly when the token is in the pending queue;
\* the operation is then removed from it and its callback is called with the
\* Cancelled result, and nothing else changes; otherwise cancel reports NotFound
\* and changes nothing.  A cancelled token is never executed by a worker, never
\* enters the completed queue, and its callback is invoked exactly once.
C8_Cancel ==
    /\ [](\A t \in CancelledTokens :
            /\ t \notin TokensOf(PendingOps) \cup TokensOf(ExecutingOps)
            /\ \A i \in 1..Len(pool_completed) : pool_completed[i].token # t
            /\ Cardinality({i \in 1..Len(cb_log) : cb_log[i].token = t}) = 1)
    /\ [][IsCancelStep =>
            LET t == last_call'.arg
                queued == \E i \in 1..Len(pool_pending) : pool_pending[i].token = t
            IN /\ last_call'.found = queued
               /\ UNCHANGED <<pool_completed, workers, shutdown>>
               /\ IF queued
                  THEN /\ pool_pending' = SelectSeq(pool_pending, LAMBDA op : op.token # t)
                       /\ cb_log' = Append(cb_log, [token |-> t, bytes_transferred |-> 0,
                                                    error |-> ECANCELED])
                  ELSE UNCHANGED <<pool_pending, cb_log>>]_vars

\* a cancel that found its token behind another one, while later transfers ran
C8_Witness ==
    /\ last_call.op = "cancel" /\ last_call.found
    /\ last_call.arg \in CancelledTokens
    /\ \E i \in 1..Len(cb_log) : cb_log[i].error # ECANCELED
    /\ pool_pending # <<>>

IsPollStep == last_call'.op = "poll" /\ (last_call' # last_call \/ cb_log' # cb_log)

\* C9: poll(max) calls exactly min(max, len(completed)) callbacks, for the
\* oldest completions and in the order the workers pushed them, returns that
\* count, and leaves the pending queue and the workers as they are: it returns
\* 0 at once when nothing has completed.
C9_Poll ==
    [][IsPollStep =>
         LET max == last_call'.arg
             n == Len(pool_completed)
             k == IF max < n THEN max ELSE n
         IN /\ last_call'.count = k
            /\ Len(cb_log') = Len(cb_log) + k
            /\ \A i \in 1..k : cb_log'[Len(cb_log) + i] = pool_completed[i]
            /\ \A i \in 1..Len(cb_log) : cb_log'[i] = cb_log[i]
            /\ Len(pool_completed') = n - k
            /\ \A i \in 1..(n - k) : pool_completed'[i] = pool_completed[k + i]
            /\ UNCHANGED <<pool_pending, workers, shutdown>>]_vars

\* a poll that is given fewer slots than there are completions
C9_Witness ==
    /\ last_call.op = "poll" /\ last_call.arg = 1 /\ last_call.count = 1
    /\ Len(cb_log) = 1
    /\ pool_completed # <<>>
    /\ cb_log[1].token < pool_completed[1].token

AllJoined == \A w \in Workers : workers[w].st = "exited"

\* C10: once the drop has begun it finishes: every worker exits and is joined;
\* when it has finished no worker is alive, and from the moment shutdown is set
\* no callback is invoked, so operations left in the queues get none.
C10_DropTerminates ==
    /\ shutdown ~> (pc = "dropped")
    /\ [](pc = "dropped" => AllJoined /\ joined = Cardinality(Workers))
    /\ [][shutdown' => cb_log' = cb_log]_vars

\* the pool was dropped with operations left in both queues
C10_Witness ==
    /\ pc = "dropped" /\ AllJoined
    /\ pool_pending # <<>> /\ pool_completed # <<>>
    /\ cb_log = <<>>


(* --------------------------- claims on the ranks -------------------------- *)

AllRanksDone == \A r \in Ranks : rank_st[r] = "done"

\* C7: if a backend call fails on one rank, every rank still passes the final
\* world barrier: no rank blocks forever.
C7_EveryRankPassesWorldBarrier == (failed_at # NoFailure) ~> AllRanksDone


(* --------------------------- claims on tokens ----------------------------- *)

\* the tokens of the transfers submitted and not yet handed to their callback
LiveTokens ==
    TokensOf(PendingOps) \cup TokensOf(ExecutingOps)
    \cup {pool_completed[i].token : i \in 1..Len(pool_completed)}

\* C11: a token is never 0; each submission gets a token larger than every
\* token issued before; so the transfers that are pending, executing or
\* completed but not yet polled all carry different tokens.
C11_TokensUnique ==
    /\ [](/\ next_token >= 1
          /\ \A t \in LiveTokens : t >= 1 /\ t < next_token
          /\ Cardinality(LiveTokens) = Outstanding
          /\ \A i, k \in 1..Len(pool_pending) :
                i < k => pool_pending[i].token < pool_pending[k].token)
    /\ [][Len(pool_pending') > Len(pool_pending) =>
            /\ pool_pending'[Len(pool_pending')].token = next_token
            /\ next_token' > next_token]_vars

\* a second pass has begun and two of its transfers are outstanding together
C11_Witness ==
    /\ restarts > 0
    /\ Cardinality(LiveTokens) = 2
    /\ \A t \in LiveTokens : t > params.total_xfers


(* ----------------------- claims on execute_posix_io ----------------------- *)

\* C12: execute_posix_io makes at most MAX_RETRY calls, however little each
\* call moves, and after that many it has returned or has nothing left to
\* move; it makes no call
\* after one that returned 0; and when it returns Ok, the value is the sum of
\* the bytes the calls moved and lies between 0 and len.
C12_RetryBounded ==
    /\ [](/\ io_calls <= MAX_RETRY
          /\ io_calls = MAX_RETRY => (io_pc = "done" \/ io_remaining = 0)
          /\ io_zero => io_pc = "done"
          /\ (io_pc = "done" /\ io_ret.kind = "Ok") =>
                /\ io_ret.val = io_sum
                /\ 0 <= io_ret.val /\ io_ret.val <= io_len)
    /\ [][io_zero => io_calls' = io_calls]_vars

\* the retry bound ended a transfer that moved a byte per call
C12_Witness ==
    /\ io_pc = "done" /\ io_ret.kind = "Ok"
    /\ io_calls = MAX_RETRY
    /\ io_ret.val = MAX_RETRY /\ io_ret.val < io_len


(* ----------------------- claims on the transfer offsets ------------------- *)

Range(seq) == {seq[i] : i \in 1..Len(seq)}

NoDup(seq) == \A i, k \in 1..Len(seq) : i # k => seq[i] # seq[k]

\* the offsets j*T + s*B of one file of a file-per-process run
FppOffsets(p) ==
    {j * p.transfer_size + s * p.block_size :
        j \in 0..(offsets_per_block(p) - 1), s \in 0..(p.segment_count - 1)}

\* the offsets j*T + s*N*B + q*B of block q of the shared file, over all q in qs
SharedOffsets(p, qs) ==
    {j * p.transfer_size + s * p.num_tasks * p.block_size + q * p.block_size :
        j \in 0..(offsets_per_block(p) - 1), s \in 0..(p.segment_count - 1), q \in qs}

\* the write phase has returned on rank r
Wrote(r) == tasks[r].ph > 1 \/ tasks[r].pc \in {"returned", "over"}

\* no offset was written twice, by one rank or by two
WritesDistinct ==
    \A r, q \in Tasks :
        \A i \in 1..Len(tasks[r].issued.write), k \in 1..Len(tasks[q].issued.write) :
            (r # q \/ i # k) => tasks[r].issued.write[i] # tasks[q].issued.write[k]

RECURSIVE SumMoved(_)
SumMoved(rs) ==
    IF rs = {} THEN 0
    ELSE LET r == CHOOSE x \in rs : TRUE
         IN Len(tasks[r].issued.write) * sparams.transfer_size + SumMoved(rs \ {r})

\* the offsets that calc_offset gives to the transfer indices of rank pr
AsyncOffsets(p, pr) ==
    LET ro == RandomOffsets(p, pr)
    IN [i \in 1..AsyncTotalXfers(p, ro) |-> calc_offset(p, pr, ro, i - 1)]

\* one pass of the write phase, with no deadline
OnePass == sparams.deadline_for_stonewalling = 0 /\ sparams.min_time_duration = 0

\* C13: with sequential offsets and no stonewalling, a rank of a
\* file-per-process run issues exactly the offsets j*T + s*B, each once; in a
\* shared-file run the offsets the ranks write are pairwise distinct, rank p
\* writes exactly j*T + s*N*B + p*B, and together the ranks write N*S*B bytes.
\* The async path's calc_offset gives the same offsets in the same order.
C13_SequentialOffsets ==
    (Tasks # {} /\ ~sparams.random_offset /\ OnePass) =>
        /\ \A r \in Tasks :
             /\ NoDup(tasks[r].issued.write)
             /\ tasks[r].issued.write
                  = SubSeq(AsyncOffsets(sparams, r), 1, Len(tasks[r].issued.write))
             /\ Wrote(r) =>
                  Range(tasks[r].issued.write)
                    = IF sparams.file_per_proc THEN FppOffsets(sparams)
                      ELSE SharedOffsets(sparams, {r})
        /\ ~sparams.file_per_proc =>
             /\ WritesDistinct
             /\ (\A r \in Tasks : Wrote(r)) =>
                  SumMoved(Tasks)
                    = sparams.num_tasks * sparams.segment_count * sparams.block_size

C13_Witness ==
    /\ Tasks # {} /\ ~sparams.random_offset /\ OnePass /\ ~sparams.file_per_proc
    /\ sparams.num_tasks = MaxTasks /\ sparams.segment_count = MaxSegments
    /\ offsets_per_block(sparams) = MaxOffsets
    /\ \A r \in Tasks : Wrote(r)

\* C14: with random offsets the offsets of one pass of the write phase are a
\* permutation of the sequential ones: per rank in a file-per-process run, and
\* over all the ranks in a shared-file run, where every transfer of every block
\* is written by exactly one rank. The async path issues the same offsets.
C14_RandomPermutation ==
    (Tasks # {} /\ sparams.random_offset /\ OnePass) =>
        /\ \A r \in Tasks :
             /\ NoDup(tasks[r].issued.write)
             /\ tasks[r].issued.write
                  = SubSeq(AsyncOffsets(sparams, r), 1, Len(tasks[r].issued.write))
             /\ (sparams.file_per_proc /\ Wrote(r)) =>
                  Range(tasks[r].issued.write) = FppOffsets(sparams)
        /\ ~sparams.file_per_proc =>
             /\ WritesDistinct
             /\ (\A r \in Tasks : Wrote(r)) =>
                  /\ UNION {Range(tasks[r].issued.write) : r \in Tasks}
                       = SharedOffsets(sparams, 0..(sparams.num_tasks - 1))
                  /\ SumMoved(Tasks)
                       = sparams.num_tasks * sparams.segment_count * sparams.block_size

C14_Witness ==
    /\ Tasks # {} /\ sparams.random_offset /\ OnePass /\ ~sparams.file_per_proc
    /\ sparams.num_tasks = MaxTasks /\ sparams.segment_count = MaxSegments
    /\ offsets_per_block(sparams) = MaxOffsets
    /\ \A r \in Tasks : Wrote(r)
    /\ \E r \in Tasks :
          Range(tasks[r].issued.write) # SharedOffsets(sparams, {r})

(* ------------------------ claims on stonewalling -------------------------- *)

\* C15: with a deadline, a rank that has observed the deadline as passed
\* issues no further transfer in that phase.
C15_NoTransferAfterDeadline ==
    [][\A r \in Tasks :
          (tasks[r].seen /\ r \in DOMAIN tasks' /\ tasks'[r].ph = tasks[r].ph)
              => tasks'[r].issued = tasks[r].issued]_vars

\* rank r has left the segment loop of every pass it began
LeftAll(r) == tasks[r].pc \in {"passend", "returned", "over"}

\* C16: in a sync shared-file run with a deadline, a rank that ends a segment
\* holds the flag that rank 0 had at the end of that segment, and all the ranks
\* leave the segment loop after the same segment; in a file-per-process run
\* nothing is broadcast and a rank's flag is its own reading of the clock.
C16_SharedStonewall ==
    /\ [](Tasks # {} /\ sparams.deadline_for_stonewalling > 0 =>
            IF sparams.file_per_proc
            THEN /\ bflags = <<>>
                 /\ \A r \in Tasks : tasks[r].nbcast = 0
                                     /\ tasks[r].hit_stonewall = tasks[r].seen
            ELSE \A r, q \in Tasks :
                    \A i \in 1..Min(Len(tasks[r].left_at), Len(tasks[q].left_at)) :
                        tasks[r].left_at[i] = tasks[q].left_at[i])
    /\ [][\A r \in Tasks :
            (r \in DOMAIN tasks' /\ tasks'[r].nbcast > tasks[r].nbcast) =>
                /\ Len(bflags') >= tasks'[r].nbcast
                /\ tasks'[r].hit_stonewall = bflags'[tasks'[r].nbcast]
                /\ r = 0 => bflags' = Append(bflags, tasks[r].hit_stonewall)]_vars

C16_Witness ==
    /\ Tasks # {} /\ sparams.deadline_for_stonewalling > 0 /\ ~sparams.file_per_proc
    /\ sparams.num_tasks = MaxTasks /\ sparams.segment_count = MaxSegments
    /\ \A r \in Tasks : LeftAll(r) /\ tasks[r].left_at = <<1>>
    /\ \E r \in Tasks : ~tasks[r].seen /\ tasks[r].hit_stonewall


(* -------------------- claims on min_time_duration ------------------------- *)

\* n copies of seq, one after the other
RECURSIVE Repeat(_, _)
Repeat(seq, n) == IF n <= 0 THEN <<>> ELSE seq \o Repeat(seq, n - 1)

\* C17: with min_time_duration > 0, a non-empty transfer set and no deadline,
\* the loop does not return Ok before the clock has reached min_time_duration;
\* a pass that ends earlier is followed by another that starts again from the
\* first offset, and the byte count returned is the sum over all the passes.
\* This holds for write_or_read and for write_or_read_async.
C17_MinTimeRepeats ==
    /\ [](/\ \A r \in Tasks :
               LET t == tasks[r]
                   one == AsyncOffsets(sparams, r)
               IN (/\ sparams.min_time_duration > 0
                   /\ sparams.deadline_for_stonewalling = 0
                   /\ one # <<>>
                   /\ t.phase = "write" /\ t.pc \in {"returned", "over"}) =>
                      /\ t.min_due
                      /\ t.issued.write = Repeat(one, t.pass + 1)
                      /\ t.data_moved = sparams.transfer_size * Len(t.issued.write)
          /\ (/\ params.min_time_duration > 0
              /\ params.deadline_for_stonewalling = 0
              /\ params.total_xfers > 0
              /\ pc = "done" /\ result.kind = "Ok") =>
                 /\ min_time_due
                 /\ submitted = params.total_xfers
                 /\ completed = (restarts + 1) * params.total_xfers
                 /\ result.val = state.total_bytes
                 /\ faults = "none" => result.val = completed * params.transfer_size)
    /\ [][restarts' > restarts => ~min_time_due' /\ submitted' = 0]_vars

C17_Witness ==
    \E r \in Tasks :
        /\ sparams.min_time_duration > 0 /\ sparams.deadline_for_stonewalling = 0
        /\ tasks[r].pc = "returned" /\ tasks[r].pass = MaxRestarts
        /\ Len(tasks[r].issued.write) = 2 * MaxSegments * MaxOffsets


(* ----------------------- claims on data verification ---------------------- *)

\* every rank is through its last phase
AllOver == Tasks # {} /\ \A r \in Tasks : tasks[r].pc = "over"

\* C18: on a faithful backend, with no stonewalling, a write phase followed by
\* a read phase with check_read on the sync path finds zero errors on every
\* rank: every read is verified and matches, and the sum over the ranks is 0.
\* This holds in both data-pattern modes, with sequential and with random
\* offsets, per-process and shared files, and with no reordering,
\* reorder_tasks and reorder_tasks_random.
C18_ReadBackClean ==
    (Tasks # {} /\ sparams.queue_depth <= 1 /\ sparams.read_file /\ sparams.check_read) =>
        \A r \in Tasks :
            /\ tasks[r].errors.read = 0
            /\ tasks[r].verified.read = Len(tasks[r].issued.read)
            /\ tasks[r].total_errors.read \in {-1, 0}
            /\ tasks[r].pc = "over" =>
                 /\ tasks[r].total_errors.read = 0
                 /\ tasks[r].issued.read =
                      AsyncOffsets(sparams, pretend_rank(sparams, r, tasks[r].rank_offset))

C18_Witness ==
    /\ AllOver
    /\ sparams.queue_depth <= 1 /\ sparams.read_file /\ sparams.check_read
    /\ sparams.num_tasks = MaxTasks /\ ~sparams.file_per_proc /\ sparams.random_offset
    /\ sparams.reorder_tasks_random /\ sparams.data_packet_type = "Offset"
    /\ sparams.segment_count = MaxSegments /\ offsets_per_block(sparams) = MaxOffsets
    /\ \E r \in Tasks : tasks[r].rank_offset # 0 /\ tasks[r].verified.read > 0
    /\ \A r \in Tasks : tasks[r].total_errors.read = 0

\* C19: on a faithful backend, with no stonewalling, the WRITECHECK phase
\* re-reads every offset that the write phase issued and reports zero errors,
\* with sequential and with random offsets, per-process and shared files.
C19_WriteCheckClean ==
    (Tasks # {} /\ sparams.check_write) =>
        /\ \A r \in Tasks : tasks[r].errors.writecheck = 0
                            /\ tasks[r].total_errors.writecheck \in {-1, 0}
        /\ AllOver =>
             /\ \A r \in Tasks : tasks[r].total_errors.writecheck = 0
             /\ IF sparams.file_per_proc
                THEN \A r \in Tasks :
                        Range(tasks[r].issued.writecheck) = Range(tasks[r].issued.write)
                ELSE UNION {Range(tasks[r].issued.writecheck) : r \in Tasks}
                       = UNION {Range(tasks[r].issued.write) : r \in Tasks}

\* C20: with check_read every read transfer is verified against the pattern
\* expected for its offset and pretend rank, and the mismatch counts are summed
\* over the ranks, on the sync path and on the async path.
C20_EveryReadVerified ==
    (Tasks # {} /\ sparams.read_file /\ sparams.check_read) =>
        \A r \in Tasks :
            /\ tasks[r].verified.read = Len(tasks[r].issued.read)
            /\ tasks[r].pc = "over" =>
                 tasks[r].total_errors.read = SumErrors(Tasks, "read")


(* ------------------------- claims on fsync -------------------------------- *)

\* C21: with fsync_per_write every write transfer is followed by an fsync
\* before the phase goes on, and no fsync follows a read transfer, on the sync
\* path and on the async path.
C21_FsyncPerWrite ==
    (Tasks # {} /\ sparams.fsync_per_write) =>
        \A r \in Tasks :
            /\ tasks[r].fsyncs.write = Len(tasks[r].issued.write)
            /\ tasks[r].fsyncs.read = 0
            /\ tasks[r].fsyncs.writecheck = 0


(* ----------------------- claims on the data pattern ----------------------- *)

PatternDone == call.pc = "done" /\ call.fn = "pattern"

\* C22: for every seed, pretend rank and offset and every buffer whose length
\* is a multiple of 8: in Timestamp mode verify after generate finds 0 errors
\* at any offset and update_write_pattern leaves the buffer as it is; in Offset
\* mode generate, update(offset), verify(offset) finds 0 errors; and after a
\* change to any one word of a verified buffer verify finds more than 0.
C22_PatternRoundTrip ==
    PatternDone =>
        /\ call.args.data_type = "Timestamp" => call.generated = 0 /\ call.unchanged
        /\ call.updated = 0
        /\ call.word # -1 => call.changed > 0
        /\ call.args.len > 0 => call.word # -1

C22_Witness ==
    /\ PatternDone /\ call.args.data_type = "Offset" /\ call.word = STAMP_STRIDE
    /\ call.args.seed = -1 /\ call.args.offset = 1073741824
    /\ ~call.unchanged /\ call.updated = 0 /\ call.changed = 1


(* ------------------- claims on the optional methods ----------------------- *)

\* the capabilities a backend does not provide: the metadata methods its impl
\* block leaves to the trait, and the async methods without a pool
Lacks(b, op) ==
    \/ op \in MetadataOps /\ ~(op \in Overrides(b.kind))
    \/ op \in AsyncOps /\ (b.kind \in {"BENCHFS", "CHFS"} \/ (b.kind = "POSIX" /\ ~b.pool))

\* C23: a backend asked for a capability it does not provide answers
\* NotSupported and changes nothing: mkdir, rmdir, stat, rename and mknod where
\* the backend leaves them to the trait, and xfer_submit, poll and cancel on
\* the POSIX backend without a pool, on BENCHFS and on CHFS.
C23_NotSupported ==
    (call.pc = "ready" /\ call.fn = "backend" /\ call.n > 0
     /\ Lacks(call.backend, call.op)) =>
        /\ call.ret = ErrRet("NotSupported")
        /\ call.st = call.before

C23_Witness ==
    /\ call.pc = "ready" /\ call.fn = "backend" /\ call.n = MaxCalls
    /\ call.backend = [kind |-> "POSIX", pool |-> FALSE, ctx |-> TRUE]
    /\ call.op = "cancel" /\ call.ret = ErrRet("NotSupported")
    /\ call.st.dirs # {}


(* ------------------------- claims on open flags --------------------------- *)

\* C24: whatever OpenFlags create or open is given, the flags handed to the
\* operating system carry one access mode among read-only, write-only and
\* read-write, and create, which adds CREAT | RDWR, always asks for read-write.
C24_OneAccessMode ==
    (call.pc = "done" /\ call.fn = "open") =>
        /\ AccessMode(call.oflags) \in {O_RDONLY, O_WRONLY, O_RDWR}
        /\ call.op = "create" => AccessMode(call.oflags) = O_RDWR


(* ------------------------- claims on main --------------------------------- *)

\* C25: every parameter record handed to the data engine has a positive
\* transfer_size and a block_size that is a nonnegative multiple of it,
\* whatever the command line gives.
C25_ValidGeometry ==
    (call.fn = "main" /\ call.handed # <<>>) =>
        /\ call.handed.transfer_size > 0
        /\ call.handed.block_size >= 0
        /\ call.handed.block_size % call.handed.transfer_size = 0

\* C26: the process exits with code 0 when the run succeeds and with a
\* nonzero code when the configuration of the backend fails or a backend
\* error ends the benchmark on the rank.
C26_ExitCode ==
    (call.fn = "main" /\ call.pc = "exited") =>
        /\ call.failed = "none" => call.code = 0
        /\ call.failed \in {"configure", "backend"} => call.code # 0


(* ------------------------- claims on the cleanup -------------------------- *)

\* C27: the cleanup at the end of a repetition deletes the test files if and
\* only if neither keep_file nor use_existing_test_file is set: with either
\* of them set it deletes no file, with neither set no file is left when
\* every rank has finished.
C27_CleanupIff ==
    call.fn = "rep" =>
        /\ (call.params.keep_file \/ call.params.use_existing_test_file) =>
               call.cleaned = {}
        /\ (~call.params.keep_file /\ ~call.params.use_existing_test_file
            /\ \A r \in DOMAIN call.pcs : call.pcs[r] = "done") =>
               call.exist = {}


(* ------------------------- claims on backend options ---------------------- *)

\* the places of the arguments that were consumed as as
TakenAs(as) == {call.taken[j].at : j \in {n \in 1..Len(call.taken) : call.taken[n].as = as}}

\* what was inserted for the option at place at
InsertedAt(at) ==
    {<<call.inserted[j][2], call.inserted[j][3]>> :
        j \in {n \in 1..Len(call.inserted) : call.inserted[n][1] = at}}

\* an argument that starts with '-'
Dashed(arg) == Len(arg) > 0 /\ Head(arg) = "-"

\* a "--" argument whose name has dot-separated segments
Dotted(arg) == is_backend_option(arg)

\* C28: extract_backend_options partitions the arguments: each is kept, in
\* its original order, or consumed. --p.k=v gives p.k = Str(v); --p.k before
\* an argument that does not start with '-' gives p.k = Str(that argument) and
\* consumes it; --p.k at the end or before an argument starting with '-' gives
\* p.k = Flag; an argument without a dotted "--" name is never consumed as an
\* option, and as a value only in the second case.
C28_ExtractPartition ==
    (call.fn = "extract" /\ call.pc = "done") =>
        LET n == Len(call.args)
            kept == {call.kept[j] : j \in 1..Len(call.kept)}
            options == TakenAs("option")
            values == TakenAs("value")
        IN /\ kept \cup options \cup values = 1..n
           /\ kept \cap (options \cup values) = {} /\ options \cap values = {}
           /\ Len(call.kept) + Len(call.taken) = n
           /\ \A j \in 1..(Len(call.kept) - 1) : call.kept[j] < call.kept[j + 1]
           /\ call.filtered = [j \in 1..Len(call.kept) |-> call.args[call.kept[j]]]
           /\ \A at \in options :
                 LET b == OptionBody(call.args[at])
                 IN /\ Dotted(call.args[at])
                    /\ IF IndexOf(b, "=") # 0
                       THEN /\ InsertedAt(at) = {<<BeforeEq(b), Str(AfterEq(b))>>}
                            /\ ~(at + 1 \in values)
                       ELSE IF at < n /\ ~Dashed(call.args[at + 1])
                       THEN /\ InsertedAt(at) = {<<b, Str(call.args[at + 1])>>}
                            /\ at + 1 \in values
                       ELSE /\ InsertedAt(at) = {<<b, Flag>>}
                            /\ ~(at + 1 \in values)
           /\ \A at \in values :
                 /\ at - 1 \in options
                 /\ IndexOf(call.args[at - 1], "=") = 0
                 /\ ~Dashed(call.args[at])
           /\ \A at \in 1..n : (~Dotted(call.args[at]) /\ ~(at \in values)) => at \in kept
           /\ \A e \in call.opts :
                 \E j \in 1..Len(call.inserted) :
                    /\ <<call.inserted[j][2], call.inserted[j][3]>> = e
                    /\ \A l \in (j + 1)..Len(call.inserted) : call.inserted[l][2] # e[1]

C28_Witness ==
    /\ call.fn = "extract" /\ call.pc = "done"
    /\ call.args = <<<<"-", "-", "p", ".", "k">>, <<"v">>, <<"-", "w">>>>
    /\ call.filtered = <<<<"-", "w">>>>
    /\ call.opts = {<<<<"p", ".", "k">>, Str(<<"v">>)>>}


(* ------------------------- claims on mdtest parameters -------------------- *)

RECURSIVE Power(_, _)
\* b^n by repeated multiplication
Power(b, n) == IF n = 0 THEN 1 ELSE b * Power(b, n - 1)

RECURSIVE SumPowers(_, _)
\* b^0 + b^1 + ... + b^n
SumPowers(b, n) == IF n = 0 THEN 1 ELSE SumPowers(b, n - 1) + Power(b, n)

\* C29: for branch_factor >= 1 and depth >= 0 compute_derived sets
\* num_dirs_in_tree to the sum of branch_factor^d for d = 0..depth, which is
\* depth + 1 for branch_factor 1; with items_per_dir > 0 and items = 0 it
\* sets items to items_per_dir * num_dirs_in_tree, or to
\* items_per_dir * branch_factor^depth when leaf_only is set.
C29_ComputeDerived ==
    (call.fn = "compute_derived" /\ call.pc = "done"
     /\ call.args.branch_factor >= 1 /\ call.args.depth >= 0) =>
        LET a == call.args
            p == call.params
        IN /\ p.num_dirs_in_tree = SumPowers(a.branch_factor, a.depth)
           /\ a.branch_factor = 1 => p.num_dirs_in_tree = a.depth + 1
           /\ (a.items_per_dir > 0 /\ a.items = 0) =>
                 p.items = IF a.leaf_only
                           THEN a.items_per_dir * Power(a.branch_factor, a.depth)
                           ELSE a.items_per_dir * p.num_dirs_in_tree

C29_Witness ==
    /\ call.fn = "compute_derived" /\ call.pc = "done"
    /\ call.args.branch_factor = 2 /\ call.args.depth = 3
    /\ call.args.items_per_dir = 10 /\ call.args.items = 0 /\ call.args.leaf_only
    /\ call.params.num_dirs_in_tree = 15 /\ call.params.items = 80


(* ------------------------- claims on the mdtest tree ---------------------- *)

\* C30: in a create, stat, remove, stat sequence over the same parameters the
\* stat after the create phase finds every item, the stat after the remove
\* phase finds none, and the phases address every item by the same path: the
\* paths of the stat phase are those of the create phase.
C30_CreateStatRemove ==
    (call.fn = "mdtest" /\ call.pc = "done") =>
        /\ \A j \in 1..Len(call.found) : call.found[j]
        /\ \A j \in 1..Len(call.found_after) : ~call.found_after[j]
        /\ {Resolve(call.made[j]) : j \in 1..Len(call.made)}
              = {Resolve(q) : q \in {mdtest_stat(call.params.dirs, full_path(call.params),
                                                 call.params)[j] : j \in 1..call.params.items}}


(* ------------------- C31 ---------------------------------------------- *)

\* C31: when the phases of the metadata engine have run, the remove phase
\* has removed every item and the stat phase has stat'ed every item,
\* whatever the stonewall timer and however long the run has lasted, and
\* the item count of the create phase is the number of items it created.
C31_OnlyCreateStonewalled ==
    (call.fn = "directory_test" /\ call.pc = "done") =>
        /\ call.removed = StoneItems(call.params)
        /\ call.stated = StoneItems(call.params)
        /\ call.items.create = Cardinality(call.created)


(* ------------------- C32 ---------------------------------------------- *)

\* the files and directories a sequence of paths names
Named32(paths) == {Resolve(paths[j]) : j \in 1..Len(paths)}

\* C32: with nstride not a multiple of the number of ranks, once every rank
\* has run its phases the paths rank r stat'ed, read and removed are the
\* paths at which rank (r + k * nstride) mod N created its items, k = 1, 2,
\* 3, and every stat found its item.
C32_StrideSamePaths ==
    (call.fn = "mdtest_iteration"
        /\ \A r \in StrideRanks : StrideStages[call.at[r]] = "done") =>
    \A r \in StrideRanks :
        LET from(k) == (r + k * call.params.nstride) % call.params.ntasks IN
        /\ Named32(call.stated[r]) = Named32(call.made[from(1)])
        /\ call.params.dirs \/ Named32(call.was_read[r]) = Named32(call.made[from(2)])
        /\ Named32(call.removed[r]) = Named32(call.made[from(3)])
        /\ \A j \in 1..Len(call.found[r]) : call.found[r][j]


(* ------------------- C33 ---------------------------------------------- *)

InBroadcast(r) ==
    /\ tasks[r].pc = "in"
    /\ tasks[r].hit_stonewall
          \/ tasks[r].j >= NumOffsets(sparams, tasks[r].random_offsets)
    /\ Broadcasts(sparams) /\ r # 0
    /\ tasks[r].nbcast = Len(bflags)

\* C34: in a run of the sync loop on a shared file with stonewalling, the
\* ranks that have returned from the transfer loop have called the
\* stonewall broadcast the same number of times, and no rank waits in a
\* broadcast that rank 0, having returned, never enters.
C34_SameCollectives ==
    sparams # <<>> =>
        /\ \A r, q \in Tasks :
              tasks[r].pc = "returned" /\ tasks[q].pc = "returned"
                  => tasks[r].nbcast = tasks[q].nbcast
        /\ \A r \in Tasks : ~(InBroadcast(r) /\ tasks[0].pc = "returned")


(* ------------------- C35 ---------------------------------------------- *)

\* C35: in a run of the data engine no rank has deleted a test file while a
\* rank held an open handle on it; at every delete before the write phase
\* every rank had closed the files of the repetition before and no rank had
\* yet created a file of this one, and at every delete of the cleanup every
\* rank had closed the files of the repetition.
C35_NoDeleteWhileOpen ==
    call.fn = "run_benchmark" =>
        \A d \in call.deleted :
            /\ d.holders = {}
            /\ d.behind = {}
            /\ d.ahead = {}

\* in the second repetition a rank has deleted, before the write phase, the
\* file that another rank read under reordering, the files being kept
C35_Witness ==
    /\ call.fn = "run_benchmark"
    /\ call.params.keep_file /\ call.params.reorder_tasks
    /\ call.params.file_per_proc /\ call.params.read_file
    /\ \E d \in call.deleted : d.kind = "before" /\ d.rep = 1 /\ d.was
    /\ \E d \in call.deleted : d.kind = "before" /\ d.rep = 0 /\ d.was


(* ------------------- C36 ---------------------------------------------- *)

\* the places a transfer is at: the pending queue, a worker that executes
\* it, the completed queue, the callbacks made
Places(t) ==
    Cardinality({i \in 1..Len(pool_pending) : pool_pending[i].token = t})
    + Cardinality({w \in Workers : workers[w].st = "exec" /\ workers[w].op.token = t})
    + Cardinality({i \in 1..Len(pool_completed) : pool_completed[i].token = t})
    + Cardinality({i \in 1..Len(cb_log) : cb_log[i].token = t})

\* C36: on the pooled backend every submitted transfer is at one place at a
\* time, pending, with one worker, completed or handed to its callback, so
\* its callback is invoked at most once: it is never both executed and
\* cancelled, never executed by two workers, never dispatched by two polls.
C36_CallbackAtMostOnce ==
    pc \in {"client", "submit_notify", "drop_notify", "drop_join", "dropped"} =>
        /\ \A t \in 1..MaxXfers : Places(t) <= 1
        /\ \A t \in 1..MaxXfers : t < next_token => Places(t) = 1
        /\ \A i, j \in 1..Len(cb_log) : cb_log[i].token = cb_log[j].token => i = j

\* one transfer was cancelled, another was executed and dispatched, and a
\* third is with a worker
C36_Witness ==
    /\ pc = "client"
    /\ \E i \in 1..Len(cb_log) : cb_log[i].error = ECANCELED
    /\ \E i \in 1..Len(cb_log) : cb_log[i].error = 0
    /\ \E w \in Workers : workers[w].st = "exec"


(* ------------------- C37 ---------------------------------------------- *)

Pending(t) == \E i \in 1..Len(pool_pending) : pool_pending[i].token = t

\* the result of the transfer is, or has been, in the completed queue
Executed(t) ==
    \/ \E i \in 1..Len(pool_completed) : pool_completed[i].token = t
    \/ \E i \in 1..Len(cb_log) : cb_log[i].token = t /\ cb_log[i].error # ECANCELED

Cancelled(t) ==
    \E i \in 1..Len(cb_log) : cb_log[i].token = t /\ cb_log[i].error = ECANCELED

\* C37: on a pool with at least one worker that is never shut down, every
\* transfer in the pending queue is eventually cancelled or executed by a
\* worker, its result put into the completed queue.
C37_EventuallyCompleted ==
    [](\A t \in 1..MaxXfers : Pending(t) => <>(Executed(t) \/ Cancelled(t)))

\* submit has pushed a transfer and not yet called notify_one, every worker
\* waits on the condition variable, and an earlier transfer was executed
C37_Witness ==
    /\ pc = "submit_notify"
    /\ pool_pending # <<>>
    /\ \A w \in Workers : workers[w].st = "wait"
    /\ \E t \in 1..MaxXfers : Executed(t)


(* ------------------- C38 ---------------------------------------------- *)

\* C38: for the same parameters, rank and rank offset and with no
\* stonewall, the offsets the async path submits in one pass are, in
\* order, the offsets the sync path issues in one pass.
C38_SameOffsets ==
    (call.fn = "offsets" /\ call.ran = {"sync", "async"}) =>
        call.async = call.sync

\* both paths have made a pass of two segments of two transfers on a shared
\* file, with random offsets, for a rank that reads under reordering
C38_Witness ==
    /\ call.fn = "offsets" /\ call.ran = {"sync", "async"}
    /\ call.args.p.random_offset /\ ~call.args.p.file_per_proc
    /\ call.args.rank_offset > 0
    /\ call.args.p.segment_count = MaxSegments
    /\ Len(call.sync) >= 2 * MaxSegments


(* ------------------- C39 ---------------------------------------------- *)

\* C39: when the engine has returned, with Ok or with the error of a
\* transfer, an fsync or a verification read, every handle that create or
\* open gave it has been passed to close exactly once.
C39_EveryHandleClosed ==
    (call.fn = "phases" /\ call.pc = "returned") =>
        \A n \in 1..Len(HandlePhases) :
            call.closes[n] = IF call.opened[n] THEN 1 ELSE 0


(* ------------------- C40 ---------------------------------------------- *)

\* C40: the default xfer_sync has returned once the completion of its
\* transfer has been dispatched, whatever the completion reports, and it
\* has not returned while its transfer is pending or completed and not yet
\* dispatched.
C40_ReturnsWhenDispatched ==
    call.fn = "xfer_sync" =>
        /\ call.transfer = "dispatched" => call.pc = "returned"
        /\ call.pc = "returned" => call.transfer \notin {"pending", "completed"}

====
